---------------------------- MODULE Spec2Model ----------------------------
(***************************************************************************)
(* Verification model of the deriverse-analytics engines:                  *)
(*   src/src/core/performanceEngine.ts, src/src/core/riskEngine.ts,        *)
(*   src/src/core/tradeAnalyticsEngine.ts,                                 *)
(*   src/src/core/timeAnalyticsEngine.ts and the fee analytics of          *)
(*   src/src/data/tradeDataService.ts,                                     *)
(* and of the App that shows them: src/src/App.tsx (and its later version  *)
(* src/unnamed/part_000) with src/src/components/SplashScreen.tsx.         *)
(*                                                                         *)
(* The engines are pure functions of a Trade[] and a small configuration.  *)
(* Each is an operator computed the way the code computes it; an action    *)
(* per engine applies it to the current trade array and records what it    *)
(* returned.                                                               *)
(*                                                                         *)
(* Numbers.  Money amounts, timestamps and durations are integers.  A      *)
(* quotient the code computes is kept as an exact fraction [n, d] in       *)
(* lowest terms with d > 0 (so two equal values are equal records); the    *)
(* IEEE value Infinity is [n |-> 1, d |-> 0].  A square root is never      *)
(* evaluated: it is compared through its square.                           *)
(***************************************************************************)
EXTENDS Integers, Sequences, FiniteSets, TLC

\* Largest number of trades in the array of the specifications Spec and SpecSymbols.
MaxTrades == 3

\* Largest number of trades in the array of SpecOvertrading.
MaxBurst == 10

\* Largest number of trades in the array of SpecClusters.
MaxClusterTrades == 5

\* Largest number of trades in the array of SpecInvoked.
MaxInvokedTrades == 3

\* Largest number of trades in the array of SpecDrawdown.
MaxDrawdownTrades == 4

\* Largest number of trades in the array of SpecStreaks.
MaxStreakTrades == 6

\* Largest number of trades in the array of SpecRuns.
MaxRunTrades == 7

\* Largest number of trades in the array of SpecLookback: more than the 30
\* trades detectOvertrading looks back on.
MaxHistory == 31
MaxShuffled == 10

-----------------------------------------------------------------------------
(* Exact arithmetic *)

Abs(x) == IF x < 0 THEN -x ELSE x

RECURSIVE GCD(_, _)
GCD(a, b) == IF b = 0 THEN a ELSE GCD(b, a % b)

\* n / d for d # 0, in lowest terms with a positive denominator.
Rat(n, d) ==
    LET g == GCD(Abs(n), Abs(d))
        s == IF d < 0 THEN -1 ELSE 1
    IN  [n |-> (s * n) \div g, d |-> (s * d) \div g]

RInt(k) == [n |-> k, d |-> 1]
Zero == RInt(0)
Infinity == [n |-> 1, d |-> 0]

RAdd(a, b) == Rat(a.n * b.d + b.n * a.d, a.d * b.d)
RSub(a, b) == Rat(a.n * b.d - b.n * a.d, a.d * b.d)
RMul(a, b) == Rat(a.n * b.n, a.d * b.d)
RLt(a, b) == a.n * b.d < b.n * a.d
RLe(a, b) == a.n * b.d <= b.n * a.d
RMin(a, b) == IF RLe(a, b) THEN a ELSE b
RMax(a, b) == IF RLe(b, a) THEN a ELSE b

\* Array.prototype.map.
MapSeq(s, f(_)) == [i \in 1..Len(s) |-> f(s[i])]

\* Array.prototype.filter.
FilterSeq(s, p(_)) == SelectSeq(s, p)

\* xs.reduce((sum, x) => sum + x, 0) over numbers.
RECURSIVE Sum(_)
Sum(xs) == IF xs = <<>> THEN 0 ELSE Sum(SubSeq(xs, 1, Len(xs) - 1)) + xs[Len(xs)]

\* trades.reduce((sum, t) => sum + f(t), 0).
SumSeq(s, f(_)) == Sum(MapSeq(s, f))

\* Math.max(...xs) and Math.min(...xs) of a non-empty array of numbers.
Max(xs) == CHOOSE m \in {xs[i] : i \in 1..Len(xs)} : \A i \in 1..Len(xs) : xs[i] <= m
Min(xs) == CHOOSE m \in {xs[i] : i \in 1..Len(xs)} : \A i \in 1..Len(xs) : m <= xs[i]

-----------------------------------------------------------------------------
(* Trades *)

MsPerDay == 86400000

\* A Trade as the data source builds it (generateMockTrades): netPnl is
\* pnl - fees and outcome is 'win' exactly when pnl > 0.  Every trade has the
\* notional volume 100.
Trade(id, timestamp, symbol, side, pnl, pnlPercentage, fees, duration) ==
    [id |-> id, timestamp |-> timestamp, symbol |-> symbol, side |-> side,
     pnl |-> pnl, pnlPercentage |-> pnlPercentage, fees |-> fees,
     netPnl |-> pnl - fees,
     duration |-> duration,
     outcome |-> IF pnl > 0 THEN "win" ELSE "loss",
     volume |-> 100]

isWin(t) == t.outcome = "win"
\* Mutant of isLoss: a loss is told by pnl < 0, not by the outcome field.
isLoss_negativePnl(t) == t.pnl < 0
isLoss(t) == t.outcome = "loss"
pnlOf(t) == t.pnl
netPnlOf(t) == t.netPnl
feesOf(t) == t.fees
volumeOf(t) == t.volume
durationOf(t) == t.duration
isLong(t) == t.side = "long"
isShort(t) == t.side = "short"

\* Mutant of sortByTimestamp: the copy is used as supplied, never sorted.
sortByTimestamp_unsorted(s) == s

\* Mutant of insertByTimestamp: the element goes to the end, wherever it belongs.
insertByTimestamp_atEnd(s, t) == Append(s, t)

\* [...trades].sort((a, b) => a.timestamp - b.timestamp): a stable sort of a copy.
RECURSIVE insertByTimestamp(_, _)
insertByTimestamp(s, t) ==
    IF s = <<>> THEN <<t>>
    ELSE IF s[Len(s)].timestamp <= t.timestamp THEN Append(s, t)
    ELSE Append(insertByTimestamp(SubSeq(s, 1, Len(s) - 1), t), s[Len(s)])

RECURSIVE sortByTimestamp(_)
sortByTimestamp(s) ==
    IF s = <<>> THEN <<>>
    ELSE insertByTimestamp(sortByTimestamp(SubSeq(s, 1, Len(s) - 1)), s[Len(s)])

\* Mutant of sortedCopy: trades.sort(cmp), the parameter itself is the
\* receiver of the sort.
sortedCopy_inPlace(trades) ==
    [trades |-> sortByTimestamp(trades), sortedTrades |-> sortByTimestamp(trades)]

\* The two arrays after  const sortedTrades = [...trades].sort(cmp).  The spread
\* allocates a new array with the elements of trades; Array.prototype.sort
\* reorders its receiver in place and returns it, and the receiver is that new
\* array.
sortedCopy(trades) ==
    LET copy == [i \in 1..Len(trades) |-> trades[i]]
    IN  [trades |-> trades, sortedTrades |-> sortByTimestamp(copy)]

\* numbers.sort((a, b) => a - b)
RECURSIVE insertAscending(_, _)
insertAscending(s, x) ==
    IF s = <<>> THEN <<x>>
    ELSE IF s[Len(s)] <= x THEN Append(s, x)
    ELSE Append(insertAscending(SubSeq(s, 1, Len(s) - 1), x), s[Len(s)])

RECURSIVE sortAscending(_)
sortAscending(s) ==
    IF s = <<>> THEN <<>>
    ELSE insertAscending(sortAscending(SubSeq(s, 1, Len(s) - 1)), s[Len(s)])

-----------------------------------------------------------------------------
(* performanceEngine.ts *)

\* A TimeSeriesPoint.
Point(timestamp, value) == [timestamp |-> timestamp, value |-> value]
valueOf(p) == p.value

\* runningEquity after the first i trades of the loop of calculateEquityCurve.
RECURSIVE runningEquity(_, _, _)
runningEquity(sorted, initialCapital, i) ==
    IF i = 0 THEN initialCapital
    ELSE runningEquity(sorted, initialCapital, i - 1) + sorted[i].netPnl

\* peak after the loop over the points has visited points[1..i], starting from start.
RECURSIVE runningPeak(_, _, _)
runningPeak(points, start, i) ==
    IF i = 0 THEN start
    ELSE LET p == runningPeak(points, start, i - 1)
         IN  IF points[i].value > p THEN points[i].value ELSE p

\* peak > 0 ? ((peak - value) / peak) * 100 : 0
drawdownPercent(peak, value) ==
    IF peak > 0 THEN Rat((peak - value) * 100, peak) ELSE Zero

\* now is what Date.now() returns during the call.
calculateEquityCurve(trades, initialCapital, now) ==
    LET sortedTrades == sortByTimestamp(trades)
        first == IF sortedTrades # <<>> /\ sortedTrades[1].timestamp # 0
                 THEN sortedTrades[1].timestamp ELSE now
        equityPoints ==
            <<Point(first, initialCapital)>> \o
            [i \in 1..Len(sortedTrades) |->
                Point(sortedTrades[i].timestamp,
                      runningEquity(sortedTrades, initialCapital, i))]
        drawdownPoints ==
            [i \in 1..Len(equityPoints) |->
                Point(equityPoints[i].timestamp,
                      drawdownPercent(runningPeak(equityPoints, initialCapital, i),
                                      equityPoints[i].value))]
    IN  [equity |-> equityPoints,
         drawdown |-> drawdownPoints,
         peak |-> runningPeak(equityPoints, initialCapital, Len(equityPoints)),
         valley |-> Min(MapSeq(equityPoints, valueOf))]

\* The loop of calculateDrawdown after it has visited equityCurve[1..i].
RECURSIVE drawdownScan(_, _)
drawdownScan(equityCurve, i) ==
    IF i = 0
    THEN [peak |-> equityCurve[1].value, maxDrawdown |-> 0, maxDrawdownPercentage |-> Zero]
    ELSE LET prev == drawdownScan(equityCurve, i - 1)
             peak == IF equityCurve[i].value > prev.peak
                     THEN equityCurve[i].value ELSE prev.peak
             drawdown == peak - equityCurve[i].value
             drawdownPct == IF peak > 0 THEN Rat(drawdown * 100, peak) ELSE Zero
         IN  IF drawdown > prev.maxDrawdown
             THEN [peak |-> peak, maxDrawdown |-> drawdown,
                   maxDrawdownPercentage |-> drawdownPct]
             ELSE [prev EXCEPT !.peak = peak]

\* Mutant of calculateDrawdown: the current drawdown is measured from the first
\* value of the curve, not from its highest value.
calculateDrawdown_fromFirstValue(equityCurve) ==
    IF Len(equityCurve) = 0
    THEN [maxDrawdown |-> 0, maxDrawdownPercentage |-> Zero, currentDrawdown |-> Zero]
    ELSE LET scan == drawdownScan(equityCurve, Len(equityCurve))
             currentValue == equityCurve[Len(equityCurve)].value
             currentPeak == equityCurve[1].value
         IN  [maxDrawdown |-> scan.maxDrawdown,
              maxDrawdownPercentage |-> scan.maxDrawdownPercentage,
              currentDrawdown |-> drawdownPercent(currentPeak, currentValue)]

calculateDrawdown(equityCurve) ==
    IF Len(equityCurve) = 0
    THEN [maxDrawdown |-> 0, maxDrawdownPercentage |-> Zero, currentDrawdown |-> Zero]
    ELSE LET scan == drawdownScan(equityCurve, Len(equityCurve))
             currentValue == equityCurve[Len(equityCurve)].value
             currentPeak == Max(MapSeq(equityCurve, valueOf))
         IN  [maxDrawdown |-> scan.maxDrawdown,
              maxDrawdownPercentage |-> scan.maxDrawdownPercentage,
              currentDrawdown |-> drawdownPercent(currentPeak, currentValue)]

\* Sum of the fractions f[x], x in S.
RECURSIVE RSum(_, _)
RSum(f, S) ==
    IF S = {} THEN Zero
    ELSE LET x == CHOOSE y \in S : TRUE IN RAdd(f[x], RSum(f, S \ {x}))

\* new Date(timestamp).toISOString().split('T')[0]: the UTC day of the timestamp.
dateOf(t) == t.timestamp \div MsPerDay

\* The value of a Sharpe ratio: ((mean - dailyRiskFreeRate) / stdDev) * sqrt(252) is
\* kept as its two exact parts, excess = mean - dailyRiskFreeRate and
\* variance = stdDev^2; nan is the IEEE NaN.
SharpeValue(excess, variance) == [nan |-> FALSE, excess |-> excess, variance |-> variance]
SharpeZero == SharpeValue(Zero, Zero)
SharpeNaN == [nan |-> TRUE, excess |-> Zero, variance |-> Zero]

\* riskFreeRate = 0.02, so dailyRiskFreeRate = 0.02 / 252 = 1 / 12600.
calculateSharpeRatio(trades, initialCapital) ==
    IF Len(trades) = 0 THEN SharpeZero
    ELSE
    LET sortedTrades == sortByTimestamp(trades)
        dates == {dateOf(sortedTrades[i]) : i \in 1..Len(sortedTrades)}
        onDate(d) == LET on(t) == dateOf(t) = d IN FilterSeq(sortedTrades, on)
        dailyReturns == [d \in dates |-> SumSeq(onDate(d), netPnlOf)]
    IN  IF initialCapital = 0
        THEN SharpeNaN   \* r / 0 is +-Infinity or NaN, and r - mean is NaN
        ELSE
        LET returns == [d \in dates |-> Rat(dailyReturns[d] * 100, initialCapital)]
            mean == LET total == RSum(returns, dates)
                    IN  Rat(total.n, total.d * Cardinality(dates))
            squares == [d \in dates |->
                           RMul(RSub(returns[d], mean), RSub(returns[d], mean))]
            variance == LET total == RSum(squares, dates)
                        IN  Rat(total.n, total.d * Cardinality(dates))
        IN  IF variance = Zero THEN SharpeZero
            ELSE SharpeValue(RSub(mean, Rat(2, 100 * 252)), variance)

calculateROI(totalPnl, initialCapital) ==
    IF initialCapital = 0 THEN Zero ELSE Rat(totalPnl * 100, initialCapital)

\* Mutant of getEmptyMetrics: no loss at all is reported as an unbounded
\* profit factor.
getEmptyMetrics_infiniteProfitFactor ==
    [totalTrades |-> 0, winningTrades |-> 0, losingTrades |-> 0, winRate |-> Zero,
     totalPnl |-> 0, realizedPnl |-> 0, unrealizedPnl |-> 0,
     grossProfit |-> 0, grossLoss |-> 0, netProfit |-> 0,
     roi |-> Zero, averageReturn |-> Zero, averageWin |-> Zero, averageLoss |-> Zero,
     largestWin |-> 0, largestLoss |-> 0, profitFactor |-> Infinity, expectancy |-> Zero,
     sharpeRatio |-> SharpeZero,
     maxDrawdown |-> 0, maxDrawdownPercentage |-> Zero, currentDrawdown |-> Zero,
     longTrades |-> 0, shortTrades |-> 0, longShortRatio |-> Zero,
     totalVolume |-> 0, totalFees |-> 0, feeToProfitRatio |-> Zero,
     averageTradeDuration |-> Zero, shortestTrade |-> 0, longestTrade |-> 0]

getEmptyMetrics ==
    [totalTrades |-> 0, winningTrades |-> 0, losingTrades |-> 0, winRate |-> Zero,
     totalPnl |-> 0, realizedPnl |-> 0, unrealizedPnl |-> 0,
     grossProfit |-> 0, grossLoss |-> 0, netProfit |-> 0,
     roi |-> Zero, averageReturn |-> Zero, averageWin |-> Zero, averageLoss |-> Zero,
     largestWin |-> 0, largestLoss |-> 0, profitFactor |-> Zero, expectancy |-> Zero,
     sharpeRatio |-> SharpeZero,
     maxDrawdown |-> 0, maxDrawdownPercentage |-> Zero, currentDrawdown |-> Zero,
     longTrades |-> 0, shortTrades |-> 0, longShortRatio |-> Zero,
     totalVolume |-> 0, totalFees |-> 0, feeToProfitRatio |-> Zero,
     averageTradeDuration |-> Zero, shortestTrade |-> 0, longestTrade |-> 0]

calculatePerformanceMetrics(trades, initialCapital) ==
    IF Len(trades) = 0 THEN getEmptyMetrics
    ELSE
    LET sortedTrades == sortByTimestamp(trades)
        totalTrades == Len(sortedTrades)
        wins == FilterSeq(sortedTrades, isWin)
        losses == FilterSeq(sortedTrades, isLoss)
        winningTrades == Len(wins)
        losingTrades == Len(losses)
        winRate == IF totalTrades > 0 THEN Rat(winningTrades * 100, totalTrades) ELSE Zero
        totalPnl == SumSeq(sortedTrades, pnlOf)
        netProfit == SumSeq(sortedTrades, netPnlOf)
        totalFees == SumSeq(sortedTrades, feesOf)
        grossProfit == SumSeq(wins, pnlOf)
        grossLoss == Abs(SumSeq(losses, pnlOf))
        averageWin == IF winningTrades > 0 THEN Rat(grossProfit, winningTrades) ELSE Zero
        averageLoss == IF losingTrades > 0 THEN Rat(grossLoss, losingTrades) ELSE Zero
        profitFactor == IF grossLoss > 0 THEN Rat(grossProfit, grossLoss)
                        ELSE IF grossProfit > 0 THEN Infinity ELSE Zero
        winFraction == Rat(winRate.n, winRate.d * 100)
        expectancy == RSub(RMul(winFraction, averageWin),
                           RMul(RSub(RInt(1), winFraction), averageLoss))
        \* sortedTrades is not empty: Date.now() can only reach the timestamp of
        \* point 0, which calculateDrawdown does not read.
        equityCurve == calculateEquityCurve(sortedTrades, initialCapital, 0)
        drawdownMetrics == calculateDrawdown(equityCurve.equity)
        longTrades == Len(FilterSeq(sortedTrades, isLong))
        shortTrades == Len(FilterSeq(sortedTrades, isShort))
        durations == MapSeq(sortedTrades, durationOf)
    IN  [totalTrades |-> totalTrades,
         winningTrades |-> winningTrades,
         losingTrades |-> losingTrades,
         winRate |-> winRate,
         totalPnl |-> totalPnl,
         realizedPnl |-> totalPnl,
         unrealizedPnl |-> 0,
         grossProfit |-> grossProfit,
         grossLoss |-> grossLoss,
         netProfit |-> netProfit,
         roi |-> IF initialCapital > 0 THEN Rat(netProfit * 100, initialCapital) ELSE Zero,
         averageReturn |-> IF totalTrades > 0 THEN Rat(totalPnl, totalTrades) ELSE Zero,
         averageWin |-> averageWin,
         averageLoss |-> averageLoss,
         largestWin |-> IF Len(wins) > 0 THEN Max(MapSeq(wins, pnlOf)) ELSE 0,
         largestLoss |-> IF Len(losses) > 0 THEN Min(MapSeq(losses, pnlOf)) ELSE 0,
         profitFactor |-> profitFactor,
         expectancy |-> expectancy,
         sharpeRatio |-> calculateSharpeRatio(sortedTrades, initialCapital),
         maxDrawdown |-> drawdownMetrics.maxDrawdown,
         maxDrawdownPercentage |-> drawdownMetrics.maxDrawdownPercentage,
         currentDrawdown |-> drawdownMetrics.currentDrawdown,
         longTrades |-> longTrades,
         shortTrades |-> shortTrades,
         longShortRatio |-> IF shortTrades > 0 THEN Rat(longTrades, shortTrades)
                            ELSE RInt(longTrades),
         totalVolume |-> SumSeq(sortedTrades, volumeOf),
         totalFees |-> totalFees,
         feeToProfitRatio |-> IF grossProfit > 0 THEN Rat(totalFees * 100, grossProfit)
                              ELSE Zero,
         averageTradeDuration |-> Rat(Sum(durations), Len(durations)),
         shortestTrade |-> Min(durations),
         longestTrade |-> Max(durations)]

-----------------------------------------------------------------------------
(* riskEngine.ts *)

ThirtyMinutesMs == 1800000
OneHourMs == 3600000
clusterWindow == 7200000

\* Mutant of lossScan: a win does not reset tempLossStreak, so every loss of
\* the history counts towards maxConsecutiveLosses.
RECURSIVE lossScan_noReset(_, _)
lossScan_noReset(sortedTrades, i) ==
    IF i > Len(sortedTrades)
    THEN [currentConsecutiveLosses |-> 0, maxConsecutiveLosses |-> 0, tempLossStreak |-> 0]
    ELSE LET prev == lossScan_noReset(sortedTrades, i + 1)
             last == (i = Len(sortedTrades))
         IN  IF sortedTrades[i].outcome = "loss"
             THEN [currentConsecutiveLosses |->
                       IF last THEN prev.currentConsecutiveLosses + 1
                       ELSE prev.currentConsecutiveLosses,
                   maxConsecutiveLosses |->
                       IF prev.tempLossStreak + 1 > prev.maxConsecutiveLosses
                       THEN prev.tempLossStreak + 1 ELSE prev.maxConsecutiveLosses,
                   tempLossStreak |-> prev.tempLossStreak + 1]
             ELSE [prev EXCEPT !.currentConsecutiveLosses = IF last THEN 0 ELSE @]

\* The loop of analyzeConsecutiveLosses, which runs i from the last index down,
\* after it has visited sortedTrades[i..Len].
RECURSIVE lossScan(_, _)
lossScan(sortedTrades, i) ==
    IF i > Len(sortedTrades)
    THEN [currentConsecutiveLosses |-> 0, maxConsecutiveLosses |-> 0, tempLossStreak |-> 0]
    ELSE LET prev == lossScan(sortedTrades, i + 1)
             last == (i = Len(sortedTrades))
         IN  IF sortedTrades[i].outcome = "loss"
             THEN [currentConsecutiveLosses |->
                       IF last THEN prev.currentConsecutiveLosses + 1
                       ELSE prev.currentConsecutiveLosses,
                   maxConsecutiveLosses |->
                       IF prev.tempLossStreak + 1 > prev.maxConsecutiveLosses
                       THEN prev.tempLossStreak + 1 ELSE prev.maxConsecutiveLosses,
                   tempLossStreak |-> prev.tempLossStreak + 1]
             ELSE [currentConsecutiveLosses |->
                       IF last THEN 0 ELSE prev.currentConsecutiveLosses,
                   maxConsecutiveLosses |-> prev.maxConsecutiveLosses,
                   tempLossStreak |-> 0]

analyzeConsecutiveLosses(trades) ==
    IF Len(trades) = 0
    THEN [currentConsecutiveLosses |-> 0, maxConsecutiveLosses |-> 0]
    ELSE LET scan == lossScan(sortByTimestamp(trades), 1)
         IN  [currentConsecutiveLosses |-> scan.currentConsecutiveLosses,
              maxConsecutiveLosses |-> scan.maxConsecutiveLosses]

\* Mutant of lastThirty: no slice, the whole history is looked at.
lastThirty_all(s) == s

\* sortedTrades.slice(-30)
lastThirty(s) == IF Len(s) <= 30 THEN s ELSE SubSeq(s, Len(s) - 29, Len(s))

\* Mutant of detectOvertrading: either threshold alone raises the flag (|| for &&).
detectOvertrading_either(trades) ==
    IF Len(trades) < 10 THEN FALSE
    ELSE
    LET recentTrades == lastThirty(sortByTimestamp(trades))
        n == Len(recentTrades)
    IN  IF n < 10 THEN FALSE
        ELSE
        LET totalTimeBetween ==
                Sum([i \in 1..(n - 1) |->
                        recentTrades[i + 1].timestamp - recentTrades[i].timestamp])
            avgTimeBetween == Rat(totalTimeBetween, n - 1)
            avgDuration == Rat(SumSeq(recentTrades, durationOf), n)
        IN  RLt(avgTimeBetween, RInt(ThirtyMinutesMs)) \/ RLt(avgDuration, RInt(OneHourMs))

detectOvertrading(trades) ==
    IF Len(trades) < 10 THEN FALSE
    ELSE
    LET recentTrades == lastThirty(sortByTimestamp(trades))
        n == Len(recentTrades)
    IN  IF n < 10 THEN FALSE
        ELSE
        LET totalTimeBetween ==
                Sum([i \in 1..(n - 1) |->
                        recentTrades[i + 1].timestamp - recentTrades[i].timestamp])
            avgTimeBetween == Rat(totalTimeBetween, n - 1)
            avgDuration == Rat(SumSeq(recentTrades, durationOf), n)
        IN  RLt(avgTimeBetween, RInt(ThirtyMinutesMs)) /\ RLt(avgDuration, RInt(OneHourMs))

\* calculateReturnVolatility returns Math.sqrt(variance); this is the variance.
returnVariance(trades) ==
    IF Len(trades) = 0 THEN Zero
    ELSE LET n == Len(trades)
             mean == Rat(SumSeq(trades, LAMBDA t : t.pnlPercentage), n)
             squaredDiff(t) == RMul(RSub(RInt(t.pnlPercentage), mean),
                                    RSub(RInt(t.pnlPercentage), mean))
             squaredDiffs == MapSeq(trades, squaredDiff)
             total == RSum(squaredDiffs, 1..n)
         IN  Rat(total.n, total.d * n)

\* The loop of calculateMaxDrawdownPercentage after the first i trades.
RECURSIVE maxDrawdownScan(_, _, _)
maxDrawdownScan(trades, initialCapital, i) ==
    IF i = 0
    THEN [peak |-> initialCapital, maxDrawdown |-> Zero, runningEquity |-> initialCapital]
    ELSE LET prev == maxDrawdownScan(trades, initialCapital, i - 1)
             equity == prev.runningEquity + trades[i].netPnl
             peak == IF equity > prev.peak THEN equity ELSE prev.peak
         IN  [peak |-> peak,
              maxDrawdown |-> RMax(prev.maxDrawdown, drawdownPercent(peak, equity)),
              runningEquity |-> equity]

calculateMaxDrawdownPercentage(trades, initialCapital) ==
    IF Len(trades) = 0 THEN Zero
    ELSE maxDrawdownScan(trades, initialCapital, Len(trades)).maxDrawdown

\* Math.round(rational + Math.sqrt(square)) for a sum >= 0: the k with
\* k - 1/2 <= rational + sqrt(square) < k + 1/2.
roundWithRoot(rational, square) ==
    LET reaches(k) == LET q == RSub(Rat(2 * k - 1, 2), rational)
                      IN  RLe(q, Zero) \/ RLe(RMul(q, q), square)
        low == rational.n \div rational.d
        high == low + (square.n \div square.d) + 2
    IN  CHOOSE k \in low..high : reaches(k) /\ ~reaches(k + 1)

\* Mutant of calculateRiskScore: the four factors are added as they are, with
\* no Math.min on a factor or on the total.
calculateRiskScore_unclamped(trades, totalEquity) ==
    IF Len(trades) = 0 THEN 0
    ELSE
    LET sortedTrades == sortByTimestamp(trades)
        maxDrawdownPct == calculateMaxDrawdownPercentage(sortedTrades, totalEquity)
        maxConsecutiveLosses == analyzeConsecutiveLosses(sortedTrades).maxConsecutiveLosses
        overtradingScore == IF detectOvertrading(sortedTrades) THEN 20 ELSE 0
    IN  roundWithRoot(
            RAdd(RMul(maxDrawdownPct, Rat(3, 2)),
                 RInt(maxConsecutiveLosses * 5 + overtradingScore)),
            RMul(returnVariance(sortedTrades), Rat(25, 4)))

calculateRiskScore(trades, totalEquity) ==
    IF Len(trades) = 0 THEN 0
    ELSE
    LET sortedTrades == sortByTimestamp(trades)
        maxDrawdownPct == calculateMaxDrawdownPercentage(sortedTrades, totalEquity)
        drawdownScore == RMin(RMul(maxDrawdownPct, Rat(3, 2)), RInt(30))
        maxConsecutiveLosses == analyzeConsecutiveLosses(sortedTrades).maxConsecutiveLosses
        streakScore == IF maxConsecutiveLosses * 5 < 25 THEN maxConsecutiveLosses * 5 ELSE 25
        \* volatilityScore = min(sqrt(variance) * 2.5, 25); its square is
        \* min(variance * 6.25, 625)
        volatilityScoreSquared ==
            RMin(RMul(returnVariance(sortedTrades), Rat(25, 4)), RInt(625))
        overtradingScore == IF detectOvertrading(sortedTrades) THEN 20 ELSE 0
        rounded == roundWithRoot(
                       RAdd(drawdownScore, RInt(streakScore + overtradingScore)),
                       volatilityScoreSquared)
    IN  IF rounded < 100 THEN rounded ELSE 100

\* Mutant of analyzeCluster: the choppy rule is tried before the two streak
\* rules.
analyzeCluster_choppyFirst(trades) ==
    LET avgPnl == Rat(SumSeq(trades, pnlOf), Len(trades))
        wins == Len(FilterSeq(trades, isWin))
        losses == Len(FilterSeq(trades, isLoss))
        absAvgPnl == IF RLt(avgPnl, Zero) THEN RSub(Zero, avgPnl) ELSE avgPnl
    IN  [startTime |-> trades[1].timestamp,
         endTime |-> trades[Len(trades)].timestamp,
         tradeCount |-> Len(trades),
         avgPnl |-> avgPnl,
         pattern |-> IF RLt(absAvgPnl, RInt(10)) THEN "choppy"
                     ELSE IF wins * 10 >= Len(trades) * 7 THEN "winning-streak"
                     ELSE IF losses * 10 >= Len(trades) * 7 THEN "losing-streak"
                     ELSE "normal"]

\* wins >= trades.length * 0.7 compares integers with a multiple of 0.7; it is
\* written wins * 10 >= trades.length * 7.
analyzeCluster(trades) ==
    LET avgPnl == Rat(SumSeq(trades, pnlOf), Len(trades))
        wins == Len(FilterSeq(trades, isWin))
        losses == Len(FilterSeq(trades, isLoss))
        absAvgPnl == IF RLt(avgPnl, Zero) THEN RSub(Zero, avgPnl) ELSE avgPnl
    IN  [startTime |-> trades[1].timestamp,
         endTime |-> trades[Len(trades)].timestamp,
         tradeCount |-> Len(trades),
         avgPnl |-> avgPnl,
         pattern |-> IF wins * 10 >= Len(trades) * 7 THEN "winning-streak"
                     ELSE IF losses * 10 >= Len(trades) * 7 THEN "losing-streak"
                     ELSE IF RLt(absAvgPnl, RInt(10)) THEN "choppy"
                     ELSE "normal"]

\* Mutant of clusterScan: a gap of exactly clusterWindow ends the cluster
\* (timeDiff < clusterWindow).
RECURSIVE clusterScan_strictWindow(_, _)
clusterScan_strictWindow(sortedTrades, i) ==
    IF i = 1 THEN [clusters |-> <<>>, currentCluster |-> <<sortedTrades[1]>>]
    ELSE LET prev == clusterScan_strictWindow(sortedTrades, i - 1)
             timeDiff == sortedTrades[i].timestamp - sortedTrades[i - 1].timestamp
         IN  IF timeDiff < clusterWindow
             THEN [prev EXCEPT !.currentCluster = Append(@, sortedTrades[i])]
             ELSE [clusters |-> IF Len(prev.currentCluster) >= 3
                                THEN Append(prev.clusters, analyzeCluster(prev.currentCluster))
                                ELSE prev.clusters,
                   currentCluster |-> <<sortedTrades[i]>>]

\* The loop of analyzeTradeClusterPatterns after it has visited sortedTrades[2..i].
RECURSIVE clusterScan(_, _)
clusterScan(sortedTrades, i) ==
    IF i = 1 THEN [clusters |-> <<>>, currentCluster |-> <<sortedTrades[1]>>]
    ELSE LET prev == clusterScan(sortedTrades, i - 1)
             timeDiff == sortedTrades[i].timestamp - sortedTrades[i - 1].timestamp
         IN  IF timeDiff <= clusterWindow
             THEN [prev EXCEPT !.currentCluster = Append(@, sortedTrades[i])]
             ELSE [clusters |-> IF Len(prev.currentCluster) >= 3
                                THEN Append(prev.clusters, analyzeCluster(prev.currentCluster))
                                ELSE prev.clusters,
                   currentCluster |-> <<sortedTrades[i]>>]

\* Mutant of analyzeTradeClusterPatterns: avgPnl of a cluster is taken over all
\* the trades, not over the trades of the cluster.
analyzeTradeClusterPatterns_globalAverage(trades) ==
    IF Len(trades) < 5 THEN <<>>
    ELSE LET scan == clusterScan(sortByTimestamp(trades), Len(trades))
             clusters == IF Len(scan.currentCluster) >= 3
                         THEN Append(scan.clusters, analyzeCluster(scan.currentCluster))
                         ELSE scan.clusters
         IN  [i \in 1..Len(clusters) |->
                 [clusters[i] EXCEPT !.avgPnl = Rat(SumSeq(trades, pnlOf), Len(trades))]]

analyzeTradeClusterPatterns(trades) ==
    IF Len(trades) < 5 THEN <<>>
    ELSE LET scan == clusterScan(sortByTimestamp(trades), Len(trades))
         IN  IF Len(scan.currentCluster) >= 3
             THEN Append(scan.clusters, analyzeCluster(scan.currentCluster))
             ELSE scan.clusters

\* scorePerformanceConsistency returns Math.sqrt(variance) of pnlPercentage,
\* computed as calculateReturnVolatility computes it; this is the variance.
consistencyVariance(trades) == returnVariance(trades)

\* performanceConsistency is kept as its square.
getRiskMetrics(trades, totalEquity) ==
    LET lossMetrics == analyzeConsecutiveLosses(trades)
        sortedTrades == sortedCopy(trades).sortedTrades
        daysSpan == IF Len(trades) > 0
                    THEN Rat(sortedTrades[Len(sortedTrades)].timestamp
                                 - sortedTrades[1].timestamp, MsPerDay)
                    ELSE RInt(1)
    IN  [riskScore |-> calculateRiskScore(trades, totalEquity),
         consecutiveLosses |-> lossMetrics.currentConsecutiveLosses,
         maxConsecutiveLosses |-> lossMetrics.maxConsecutiveLosses,
         overtradingFlag |-> detectOvertrading(trades),
         performanceConsistency |-> consistencyVariance(trades),
         avgDailyTrades |-> IF RLt(Zero, daysSpan)
                            THEN Rat(Len(trades) * daysSpan.d, daysSpan.n)
                            ELSE RInt(Len(trades))]

-----------------------------------------------------------------------------
(* tradeAnalyticsEngine.ts *)

calculateWinRate(trades) ==
    IF Len(trades) = 0 THEN Zero
    ELSE Rat(Len(FilterSeq(trades, isWin)) * 100, Len(trades))

\* Mutant of calculateAverageWin: the pnl of the wins is spread over all trades.
calculateAverageWin_overAllTrades(trades) ==
    LET wins == FilterSeq(trades, isWin)
    IN  IF Len(wins) = 0 THEN Zero
        ELSE Rat(SumSeq(wins, pnlOf), Len(trades))

calculateAverageWin(trades) ==
    LET wins == FilterSeq(trades, isWin)
    IN  IF Len(wins) = 0 THEN Zero
        ELSE Rat(SumSeq(wins, pnlOf), Len(wins))

\* Mutant of calculateAverageLoss: the average keeps its sign, without Math.abs.
calculateAverageLoss_signed(trades) ==
    LET losses == FilterSeq(trades, isLoss)
    IN  IF Len(losses) = 0 THEN Zero
        ELSE Rat(SumSeq(losses, pnlOf), Len(losses))

calculateAverageLoss(trades) ==
    LET losses == FilterSeq(trades, isLoss)
    IN  IF Len(losses) = 0 THEN Zero
        ELSE Rat(Abs(SumSeq(losses, pnlOf)), Len(losses))

calculateExpectancy(trades) ==
    IF Len(trades) = 0 THEN Zero
    ELSE LET winRate == RMul(calculateWinRate(trades), Rat(1, 100))
             lossRate == RSub(RInt(1), winRate)
             avgWin == calculateAverageWin(trades)
             avgLoss == calculateAverageLoss(trades)
         IN  RSub(RMul(winRate, avgWin), RMul(lossRate, avgLoss))

\* Mutant of calculateProfitFactor: a zero grossLoss always yields 0.
calculateProfitFactor_zeroWithoutLoss(trades) ==
    LET grossProfit == SumSeq(FilterSeq(trades, isWin), pnlOf)
        grossLoss == Abs(SumSeq(FilterSeq(trades, isLoss), pnlOf))
    IN  IF grossLoss = 0 THEN Zero ELSE Rat(grossProfit, grossLoss)

calculateProfitFactor(trades) ==
    LET grossProfit == SumSeq(FilterSeq(trades, isWin), pnlOf)
        grossLoss == Abs(SumSeq(FilterSeq(trades, isLoss), pnlOf))
    IN  IF grossLoss = 0 THEN (IF grossProfit > 0 THEN Infinity ELSE Zero)
        ELSE Rat(grossProfit, grossLoss)

\* The keys of symbolMap in insertion order: each symbol at its first occurrence.
RECURSIVE symbolKeys(_)
symbolKeys(trades) ==
    IF trades = <<>> THEN <<>>
    ELSE LET before == symbolKeys(SubSeq(trades, 1, Len(trades) - 1))
             symbol == trades[Len(trades)].symbol
         IN  IF \E i \in 1..Len(before) : before[i] = symbol
             THEN before ELSE Append(before, symbol)

\* Mutant of symbolTradesOf: symbolMap.set(symbol, [trade]) forgets the trades
\* already grouped under the symbol.
symbolTradesOf_lastOnly(trades, symbol) ==
    LET has(t) == t.symbol = symbol
        all == FilterSeq(trades, has)
    IN  <<all[Len(all)]>>

\* symbolMap.get(symbol) once the grouping loop has ended.
symbolTradesOf(trades, symbol) ==
    LET has(t) == t.symbol = symbol IN FilterSeq(trades, has)

\* symbolPerformance.sort((a, b) => b.totalPnl - a.totalPnl): stable, descending.
RECURSIVE insertByTotalPnl(_, _)
insertByTotalPnl(s, e) ==
    IF s = <<>> THEN <<e>>
    ELSE IF s[Len(s)].totalPnl >= e.totalPnl THEN Append(s, e)
    ELSE Append(insertByTotalPnl(SubSeq(s, 1, Len(s) - 1), e), s[Len(s)])

RECURSIVE sortByTotalPnlDesc(_)
sortByTotalPnlDesc(s) ==
    IF s = <<>> THEN <<>>
    ELSE insertByTotalPnl(sortByTotalPnlDesc(SubSeq(s, 1, Len(s) - 1)), s[Len(s)])

analyzeBySymbol(trades) ==
    LET keys == symbolKeys(trades)
        entry(symbol) ==
            LET symbolTrades == symbolTradesOf(trades, symbol)
                totalPnl == SumSeq(symbolTrades, pnlOf)
            IN  [symbol |-> symbol,
                 trades |-> Len(symbolTrades),
                 winRate |-> calculateWinRate(symbolTrades),
                 totalPnl |-> totalPnl,
                 averagePnl |-> Rat(totalPnl, Len(symbolTrades)),
                 volume |-> SumSeq(symbolTrades, volumeOf)]
    IN  sortByTotalPnlDesc(MapSeq(keys, entry))

\* 7 and 30 days in milliseconds are the windows of analyzeDirectionalBias.
\* timestamp >= now - days * MsPerDay is decided on now - timestamp rounded up
\* to whole days, which keeps every number within 32 bits.
within(t, now, days) == (now - t.timestamp + MsPerDay - 1) \div MsPerDay <= days

\* The percentage of long trades, 50 for no trade at all.
longPercentage(trades) ==
    IF Len(trades) > 0 THEN Rat(Len(FilterSeq(trades, isLong)) * 100, Len(trades))
    ELSE RInt(50)

\* now is what Date.now() returns during the call.
analyzeDirectionalBias(trades, now) ==
    IF Len(trades) = 0
    THEN [overall |-> RInt(50), recentMonth |-> RInt(50), recentWeek |-> RInt(50)]
    ELSE LET inMonth(t) == within(t, now, 30)
             inWeek(t) == within(t, now, 7)
         IN  [overall |-> Rat(Len(FilterSeq(trades, isLong)) * 100, Len(trades)),
              recentMonth |-> longPercentage(FilterSeq(trades, inMonth)),
              recentWeek |-> longPercentage(FilterSeq(trades, inWeek))]

\* The loop of analyzeStreaks, which runs i from the last index down, after it
\* has visited sortedTrades[i..Len]; broken tells that it has left through break.
RECURSIVE streakScan(_, _)
streakScan(sortedTrades, i) ==
    IF i > Len(sortedTrades)
    THEN [currentStreak |-> 1,
          currentStreakType |-> sortedTrades[Len(sortedTrades)].outcome,
          longestWinStreak |-> 0, longestLossStreak |-> 0,
          tempWinStreak |-> 0, tempLossStreak |-> 0, broken |-> FALSE]
    ELSE LET prev == streakScan(sortedTrades, i + 1)
             trade == sortedTrades[i]
             inner == i < Len(sortedTrades)
         IN  IF prev.broken THEN prev
             ELSE IF inner /\ trade.outcome # prev.currentStreakType
             THEN [prev EXCEPT !.broken = TRUE]
             ELSE LET counted == IF inner THEN [prev EXCEPT !.currentStreak = @ + 1]
                                 ELSE prev
                  IN  IF trade.outcome = "win"
                      THEN [counted EXCEPT
                               !.tempWinStreak = @ + 1,
                               !.tempLossStreak = 0,
                               !.longestWinStreak =
                                   IF prev.tempWinStreak + 1 > @
                                   THEN prev.tempWinStreak + 1 ELSE @]
                      ELSE [counted EXCEPT
                               !.tempLossStreak = @ + 1,
                               !.tempWinStreak = 0,
                               !.longestLossStreak =
                                   IF prev.tempLossStreak + 1 > @
                                   THEN prev.tempLossStreak + 1 ELSE @]

analyzeStreaks(trades) ==
    IF Len(trades) = 0
    THEN [currentStreak |-> 0, currentStreakType |-> "none",
          longestWinStreak |-> 0, longestLossStreak |-> 0]
    ELSE LET scan == streakScan(sortedCopy(trades).sortedTrades, 1)
         IN  [currentStreak |-> scan.currentStreak,
              currentStreakType |-> scan.currentStreakType,
              longestWinStreak |-> scan.longestWinStreak,
              longestLossStreak |-> scan.longestLossStreak]

-----------------------------------------------------------------------------
(* timeAnalyticsEngine.ts *)

MsPerHour == 3600000

\* new Date(timestamp).getHours(): the hour of the day on the local clock, which
\* is utcOffset milliseconds ahead of UTC.
getHours(timestamp, utcOffset) == ((timestamp + utcOffset) \div MsPerHour) % 24

\* The Map as a function from its keys to their values: every hour starts at 0
\* and takes the pnl of the trades of that hour, in the order of the array.
analyzeHourlyPerformance(trades, utcOffset) ==
    [hour \in 0..23 |->
        LET inHour(t) == getHours(t.timestamp, utcOffset) = hour
        IN  SumSeq(FilterSeq(trades, inHour), pnlOf)]

\* Mutant of analyzeSessionPerformance: the morning lasts through hour 12.
analyzeSessionPerformance_noonInMorning(trades, utcOffset) ==
    LET isMorning(t) == getHours(t.timestamp, utcOffset) <= 12
        isAfternoon(t) == ~isMorning(t) /\ getHours(t.timestamp, utcOffset) < 18
        isEvening(t) == ~isMorning(t) /\ ~isAfternoon(t)
    IN  [morning |-> SumSeq(FilterSeq(trades, isMorning), pnlOf),
         afternoon |-> SumSeq(FilterSeq(trades, isAfternoon), pnlOf),
         evening |-> SumSeq(FilterSeq(trades, isEvening), pnlOf)]

analyzeSessionPerformance(trades, utcOffset) ==
    LET isMorning(t) == getHours(t.timestamp, utcOffset) < 12
        isAfternoon(t) == ~isMorning(t) /\ getHours(t.timestamp, utcOffset) < 18
        isEvening(t) == ~isMorning(t) /\ ~isAfternoon(t)
    IN  [morning |-> SumSeq(FilterSeq(trades, isMorning), pnlOf),
         afternoon |-> SumSeq(FilterSeq(trades, isAfternoon), pnlOf),
         evening |-> SumSeq(FilterSeq(trades, isEvening), pnlOf)]

\* Mutant of calculateTradeDurationMetrics: the median is the element at
\* Math.floor((length - 1) / 2).
calculateTradeDurationMetrics_lowerMiddle(trades) ==
    IF Len(trades) = 0
    THEN [average |-> Zero, median |-> 0, shortest |-> 0, longest |-> 0,
          averageWinDuration |-> Zero, averageLossDuration |-> Zero]
    ELSE LET durations == sortAscending(MapSeq(trades, durationOf))
             wins == FilterSeq(trades, isWin)
             losses == FilterSeq(trades, isLoss)
         IN  [average |-> Rat(Sum(durations), Len(durations)),
              median |-> durations[((Len(durations) - 1) \div 2) + 1],
              shortest |-> durations[1],
              longest |-> durations[Len(durations)],
              averageWinDuration |->
                  IF Len(wins) > 0 THEN Rat(SumSeq(wins, durationOf), Len(wins))
                  ELSE Zero,
              averageLossDuration |->
                  IF Len(losses) > 0 THEN Rat(SumSeq(losses, durationOf), Len(losses))
                  ELSE Zero]

calculateTradeDurationMetrics(trades) ==
    IF Len(trades) = 0
    THEN [average |-> Zero, median |-> 0, shortest |-> 0, longest |-> 0,
          averageWinDuration |-> Zero, averageLossDuration |-> Zero]
    ELSE LET durations == sortAscending(MapSeq(trades, durationOf))
             wins == FilterSeq(trades, isWin)
             losses == FilterSeq(trades, isLoss)
         IN  [average |-> Rat(Sum(durations), Len(durations)),
              median |-> durations[(Len(durations) \div 2) + 1],
              shortest |-> durations[1],
              longest |-> durations[Len(durations)],
              averageWinDuration |->
                  IF Len(wins) > 0 THEN Rat(SumSeq(wins, durationOf), Len(wins))
                  ELSE Zero,
              averageLossDuration |->
                  IF Len(losses) > 0 THEN Rat(SumSeq(losses, durationOf), Len(losses))
                  ELSE Zero]

-----------------------------------------------------------------------------
(* The fee analytics of tradeDataService.ts *)

\* A trade with the optional fields makerFee and takerFee set.
withFeeSplit(t, makerFee, takerFee) ==
    t @@ [makerFee |-> makerFee, takerFee |-> takerFee]

\* trade.makerFee || 0  and  trade.takerFee || 0 : a missing field reads as
\* undefined, which || replaces by 0 as it does 0 itself.
makerFeeOf(t) == IF "makerFee" \in DOMAIN t THEN t.makerFee ELSE 0
takerFeeOf(t) == IF "takerFee" \in DOMAIN t THEN t.takerFee ELSE 0

calculateTotalFees(trades) == SumSeq(trades, feesOf)

analyzeFeeComposition(trades) ==
    LET makerFees == SumSeq(trades, makerFeeOf)
        takerFees == SumSeq(trades, takerFeeOf)
        totalFees == makerFees + takerFees
    IN  [totalFees |-> totalFees,
         makerFees |-> makerFees,
         takerFees |-> takerFees,
         makerPercentage |->
             IF totalFees > 0 THEN RMul(Rat(makerFees, totalFees), RInt(100)) ELSE Zero,
         takerPercentage |->
             IF totalFees > 0 THEN RMul(Rat(takerFees, totalFees), RInt(100)) ELSE Zero]

calculateCumulativeFees(trades) ==
    LET sortedTrades == sortedCopy(trades).sortedTrades
    IN  [i \in 1..Len(sortedTrades) |->
            [timestamp |-> sortedTrades[i].timestamp,
             fees |-> SumSeq(SubSeq(sortedTrades, 1, i), feesOf)]]

-----------------------------------------------------------------------------
(* The engines at work: a trade array is supplied, then an engine is called *)
(* on that snapshot.                                                        *)

VARIABLES
    trades,     \* the Trade[] handed to the engines, in the order supplied
    call,       \* the engine function called last on trades, "none" before any call
    config,     \* its second argument: initialCapital or portfolio.totalEquity
    result,     \* what it returned
    app         \* the App and its SplashScreen: their state and pending timers

vars == <<trades, call, config, result, app>>

\* initialCapital / totalEquity: a funded account, an empty one, one in debt.
Capitals == {10, 0, -5}

\* Values of Date.now(): exactly 7 days after the earliest of Timestamps, and
\* one millisecond later.
Clock == {604801000, 604801001}

Timestamps == {1000, 2000, 86401000}

\* (pnl, fees, side, duration) of the trades of Spec: a loss larger than the
\* capital, a trade with pnl exactly 0, two wins; with and without fees.
Orders ==
    {[pnl |-> -15, fees |-> 1, side |-> "short", duration |-> 1200000],
     [pnl |-> 0, fees |-> 1, side |-> "long", duration |-> 1200000],
     [pnl |-> 5, fees |-> 1, side |-> "long", duration |-> 3600000],
     [pnl |-> 10, fees |-> 0, side |-> "short", duration |-> 7200000]}

Symbols == {"SOL/USDC", "BTC/USDC", "ETH/USDC"}
SymbolPnls == {-20, 0, 10, 30}

\* useState(true) of showSplash and isLoading in App and of isVisible in
\* SplashScreen; no timer is set before the first render.
Init ==
    /\ trades = <<>>
    /\ call = "none"
    /\ config = 0
    /\ result = <<>>
    /\ app = [version |-> "none", showSplash |-> TRUE, isLoading |-> TRUE,
              isVisible |-> TRUE, splashTimer |-> FALSE, fadeTimers |-> 0,
              loadingTimers |-> 0]

\* The collaborator extends the array by one trade, before it hands the array
\* to an engine.
Supply(t) ==
    /\ call = "none"
    /\ trades' = Append(trades, t)
    /\ UNCHANGED <<call, config, result, app>>

\* pnlPercentage of a trade of volume 100 is its pnl.
SupplyTrade ==
    /\ Len(trades) < MaxTrades
    /\ \E ts \in Timestamps, o \in Orders :
          Supply(Trade(Len(trades) + 1, ts, "SOL/USDC", o.side, o.pnl, o.pnl,
                       o.fees, o.duration))

SupplySymbolTrade ==
    /\ Len(trades) < MaxTrades
    /\ \E symbol \in Symbols, pnl \in SymbolPnls :
          Supply(Trade(Len(trades) + 1, 1000 * (Len(trades) + 1), symbol, "long",
                       pnl, pnl, 1, 1200000))

\* One engine call on the array as it stands: the engine returns value.
Returns(op, arg, value) ==
    /\ call = "none"
    /\ call' = op
    /\ config' = arg
    /\ result' = value
    /\ UNCHANGED <<trades, app>>

CallPerformanceMetrics ==
    \E initialCapital \in Capitals :
        Returns("calculatePerformanceMetrics", initialCapital,
                calculatePerformanceMetrics(trades, initialCapital))

CallEquityCurve ==
    \E initialCapital \in Capitals, now \in Clock :
        Returns("calculateEquityCurve", initialCapital,
                calculateEquityCurve(trades, initialCapital, now))

CallRiskScore ==
    \E totalEquity \in Capitals :
        Returns("calculateRiskScore", totalEquity,
                calculateRiskScore(trades, totalEquity))

CallAnalyzeBySymbol ==
    Returns("analyzeBySymbol", 0, analyzeBySymbol(trades))

CallProfitFactor ==
    Returns("calculateProfitFactor", 0, calculateProfitFactor(trades))

CallWinRate ==
    Returns("calculateWinRate", 0, calculateWinRate(trades))

CallAverageWin ==
    Returns("calculateAverageWin", 0, calculateAverageWin(trades))

CallAverageLoss ==
    Returns("calculateAverageLoss", 0, calculateAverageLoss(trades))

CallExpectancy ==
    Returns("calculateExpectancy", 0, calculateExpectancy(trades))

CallDirectionalBias ==
    \E now \in Clock :
        Returns("analyzeDirectionalBias", 0, analyzeDirectionalBias(trades, now))

\* A burst of trades: each follows the one before after a gap of 10 minutes or
\* of 2 hours, and all are held equally long, 20 minutes or 1 hour.
BurstGaps == {600000, 7200000}
BurstDurations == {1200000, 3600000}

SupplyBurstTrade ==
    /\ Len(trades) < MaxBurst
    /\ \E gap \in BurstGaps, duration \in BurstDurations :
          /\ Len(trades) >= 1 => duration = trades[1].duration
          /\ Supply(Trade(Len(trades) + 1,
                          IF Len(trades) = 0 THEN 1000
                          ELSE trades[Len(trades)].timestamp + gap,
                          "SOL/USDC", "long", 5, 5, 1, duration))

CallDetectOvertrading ==
    Returns("detectOvertrading", 0, detectOvertrading(trades))

\* A long history, supplied oldest first or newest first: a trade lies 10
\* minutes or 2 hours from the one supplied before it and is held 20 minutes or
\* 2 hours.  The pace (gap and duration) changes at most once in a history.
HistoryStart == 500000000
HistoryDurations == {1200000, 7200000}

Steady ==
    /\ \A i \in 2..Len(trades) : trades[i].duration = trades[1].duration
    /\ \A i \in 3..Len(trades) :
          trades[i].timestamp - trades[i - 1].timestamp
              = trades[2].timestamp - trades[1].timestamp

SupplyHistoryTrade ==
    /\ Len(trades) < MaxHistory
    /\ \E gap \in BurstGaps, duration \in HistoryDurations, sign \in {-1, 1} :
          LET n == Len(trades)
          IN  /\ n >= 2 => sign * (trades[2].timestamp - trades[1].timestamp) > 0
              /\ n = 0 => (gap = 600000 /\ sign = 1)
              /\ ~Steady =>
                    /\ duration = trades[n].duration
                    /\ sign * gap = trades[n].timestamp - trades[n - 1].timestamp
              /\ Supply(Trade(n + 1,
                              IF n = 0 THEN HistoryStart
                              ELSE trades[n].timestamp + sign * gap,
                              "SOL/USDC", "long", 5, 5, 1, duration))

\* Trades for the drawdown scans, in chronological order and free of fees:
\* losses of three sizes and a large win.
DrawdownPnls == {-16, -3, -2, 20}

SupplyDrawdownTrade ==
    /\ Len(trades) < MaxDrawdownTrades
    /\ \E pnl \in DrawdownPnls :
          Supply(Trade(Len(trades) + 1, 1000 * (Len(trades) + 1), "SOL/USDC", "long",
                       pnl, pnl, 0, 1200000))

\* The drawdown factor of calculateRiskScore: calculateMaxDrawdownPercentage on
\* the sorted copy, against totalEquity.
CallMaxDrawdownPercentage ==
    \E totalEquity \in Capitals :
        Returns("calculateMaxDrawdownPercentage", totalEquity,
                calculateMaxDrawdownPercentage(sortedCopy(trades).sortedTrades,
                                               totalEquity))

\* The drawdown analysis of calculatePerformanceMetrics: calculateDrawdown on
\* the equity points of calculateEquityCurve.
CallDrawdown ==
    \E initialCapital \in Capitals, now \in Clock :
        Returns("calculateDrawdown", initialCapital,
                calculateDrawdown(
                    calculateEquityCurve(trades, initialCapital, now).equity))

\* A history of wins and losses in which every trade supplied is later than all
\* the trades before it, or earlier than all of them.
StreakStart == 100000
StreakPnls == {-5, 5}

SupplyStreakTrade ==
    /\ Len(trades) < MaxStreakTrades
    /\ \E pnl \in StreakPnls, later \in BOOLEAN :
          LET times == {trades[i].timestamp : i \in 1..Len(trades)}
              timestamp ==
                  IF times = {} THEN StreakStart
                  ELSE IF later THEN (CHOOSE t \in times : \A u \in times : u <= t) + 1000
                  ELSE (CHOOSE t \in times : \A u \in times : t <= u) - 1000
          IN  Supply(Trade(Len(trades) + 1, timestamp, "SOL/USDC", "long",
                           pnl, pnl, 1, 1200000))

CallAnalyzeConsecutiveLosses ==
    Returns("analyzeConsecutiveLosses", 0, analyzeConsecutiveLosses(trades))

CallAnalyzeStreaks ==
    Returns("analyzeStreaks", 0, analyzeStreaks(trades))

\* Trades for clustering: each follows the one before after 30 minutes or after
\* 130 minutes, with a losing, a small or a large pnl.
ClusterGaps == {1800000, 7800000}
ClusterPnls == {-30, 5, 20, 40}

SupplyClusterTrade ==
    /\ Len(trades) < MaxClusterTrades
    /\ \E gap \in ClusterGaps, pnl \in ClusterPnls :
          Supply(Trade(Len(trades) + 1,
                       IF Len(trades) = 0 THEN 1000
                       ELSE trades[Len(trades)].timestamp + gap,
                       "SOL/USDC", "long", pnl, pnl, 1, 1200000))

CallAnalyzeTradeClusterPatterns ==
    Returns("analyzeTradeClusterPatterns", 0, analyzeTradeClusterPatterns(trades))

\* Runs of trades, supplied oldest first or newest first: a trade lies 30
\* minutes, exactly 2 hours or 130 minutes from the one supplied before it.
RunStart == 300000000
RunGaps == {1800000, 7200000, 7800000}

SupplyRunTrade ==
    /\ Len(trades) < MaxRunTrades
    /\ \E gap \in RunGaps, sign \in {-1, 1} :
          LET n == Len(trades)
          IN  /\ n >= 2 => sign * (trades[2].timestamp - trades[1].timestamp) > 0
              /\ n = 0 => (gap = 1800000 /\ sign = 1)
              /\ Supply(Trade(n + 1,
                              IF n = 0 THEN RunStart
                              ELSE trades[n].timestamp + sign * gap,
                              "SOL/USDC", "long", 5, 5, 1, 1200000))

\* A history supplied in a shuffled order: every trade supplied is later than
\* all the trades before it or earlier than all of them, and from the sixth
\* trade on the supply keeps the direction of the fifth.  The history is rapid
\* (10 minutes apart, held 20 minutes) or slow (3 hours apart, held 2 hours);
\* every third moment of it is a loss.
ShuffleStart == 400000000
ShufflePaces == {[gap |-> 600000, duration |-> 1200000],
                 [gap |-> 10800000, duration |-> 7200000]}

SupplyShuffledTrade ==
    /\ Len(trades) < MaxShuffled
    /\ \E pace \in ShufflePaces, later \in BOOLEAN :
          LET n == Len(trades)
              stamps == {trades[i].timestamp : i \in 1..n}
              timestamp ==
                  IF n = 0 THEN ShuffleStart
                  ELSE IF later
                  THEN (CHOOSE m \in stamps : \A x \in stamps : x <= m) + pace.gap
                  ELSE (CHOOSE m \in stamps : \A x \in stamps : m <= x) - pace.gap
              pnl == IF ((timestamp - ShuffleStart) \div pace.gap) % 3 = 0
                     THEN -15 ELSE 10
          IN  /\ n = 0 => later
              /\ n >= 5 => (later <=> trades[n].timestamp > trades[n - 1].timestamp)
              /\ n > 0 => pace.duration = trades[1].duration
              /\ Supply(Trade(n + 1, timestamp, "SOL/USDC", "long", pnl, pnl, 1,
                              pace.duration))

CallCumulativeFees ==
    Returns("calculateCumulativeFees", 0, calculateCumulativeFees(trades))

\* Trades for the fee composition: a trade pays fees of 0, 1 or 3 and carries
\* them as maker fee (a limit order), as taker fee (any other order), or
\* carries no split at all.
FeeAmounts == {0, 1, 3}
FeeSplits == {"maker", "taker", "none"}

SupplyFeeTrade ==
    /\ Len(trades) < MaxTrades
    /\ \E fees \in FeeAmounts, split \in FeeSplits :
          LET t == Trade(Len(trades) + 1, 1000 * (Len(trades) + 1), "SOL/USDC",
                         "long", 5, 5, fees, 1200000)
          IN  Supply(CASE split = "maker" -> withFeeSplit(t, fees, 0)
                       [] split = "taker" -> withFeeSplit(t, 0, fees)
                       [] split = "none" -> t)

CallTotalFees ==
    Returns("calculateTotalFees", 0, calculateTotalFees(trades))

CallAnalyzeFeeComposition ==
    Returns("analyzeFeeComposition", 0, analyzeFeeComposition(trades))

\* Trades for the hours of the day: at midnight UTC, at the last millisecond
\* before noon, at noon, at 18:00 and in the last hour of the next day, on a
\* local clock that is at UTC, 5 hours behind it or 5 hours 30 minutes ahead.
HourStamps == {0, 43199999, 43200000, 64800000, 169200000}
UtcOffsets == {0, -18000000, 19800000}
HourPnls == {-15, 10}

SupplyHourTrade ==
    /\ Len(trades) < MaxTrades
    /\ \E ts \in HourStamps, pnl \in HourPnls :
          Supply(Trade(Len(trades) + 1, ts, "SOL/USDC", "long", pnl, pnl, 1, 1200000))

CallAnalyzeHourlyPerformance ==
    \E utcOffset \in UtcOffsets :
        Returns("analyzeHourlyPerformance", utcOffset,
                analyzeHourlyPerformance(trades, utcOffset))

CallAnalyzeSessionPerformance ==
    \E utcOffset \in UtcOffsets :
        Returns("analyzeSessionPerformance", utcOffset,
                analyzeSessionPerformance(trades, utcOffset))

\* The array handed to an engine, once the engine and the engines it calls have
\* gone through n statements  [...trades].sort(cmp)  on it.
RECURSIVE afterSortedCopies(_, _)
afterSortedCopies(array, n) ==
    IF n = 0 THEN array ELSE sortedCopy(afterSortedCopies(array, n - 1)).trades

\* Trades handed over in any order of their timestamps: a loss and a win, at
\* either of two moments.
InvokedOrders == {o \in Orders : o.pnl \in {-15, 10}}
InvokedTimestamps == {1000, 2000}

SupplyUnorderedTrade ==
    /\ Len(trades) < MaxInvokedTrades
    /\ \E ts \in InvokedTimestamps, o \in InvokedOrders :
          Supply(Trade(Len(trades) + 1, ts, "SOL/USDC", o.side, o.pnl, o.pnl,
                       o.fees, o.duration))

\* An engine call at any time, also after other engine calls: the engine
\* returns value and leaves the array it was handed as after.
Invoke(op, arg, value, after) ==
    /\ call' = op
    /\ config' = arg
    /\ result' = value
    /\ trades' = after
    /\ UNCHANGED app

\* calculatePerformanceMetrics returns before any sort when the array is empty;
\* calculateEquityCurve and calculateSharpeRatio are handed its sorted copy.
InvokePerformanceMetrics ==
    \E initialCapital \in Capitals :
        Invoke("calculatePerformanceMetrics", initialCapital,
               calculatePerformanceMetrics(trades, initialCapital),
               IF Len(trades) = 0 THEN trades ELSE afterSortedCopies(trades, 1))

\* getRiskMetrics hands the array to analyzeConsecutiveLosses, detectOvertrading
\* and calculateRiskScore, then sorts a copy itself; the first three return
\* before any sort when the array is empty, detectOvertrading under 10 trades.
InvokeRiskMetrics ==
    \E totalEquity \in Capitals :
        Invoke("getRiskMetrics", totalEquity, getRiskMetrics(trades, totalEquity),
               afterSortedCopies(trades, IF Len(trades) = 0 THEN 1
                                         ELSE IF Len(trades) < 10 THEN 3 ELSE 4))

\* trades.map(t => t.duration) is a new array, and the sort is on it.
InvokeTradeDurationMetrics ==
    Invoke("calculateTradeDurationMetrics", 0, calculateTradeDurationMetrics(trades),
           afterSortedCopies(trades, 0))

InvokeCumulativeFees ==
    Invoke("calculateCumulativeFees", 0, calculateCumulativeFees(trades),
           afterSortedCopies(trades, 1))

InvokeStreaks ==
    Invoke("analyzeStreaks", 0, analyzeStreaks(trades),
           IF Len(trades) = 0 THEN trades ELSE afterSortedCopies(trades, 1))

NextInvoked ==
    \/ SupplyUnorderedTrade
    \/ InvokePerformanceMetrics
    \/ InvokeRiskMetrics
    \/ InvokeTradeDurationMetrics
    \/ InvokeCumulativeFees
    \/ InvokeStreaks

SpecInvoked == Init /\ [][NextInvoked]_vars

Next ==
    \/ SupplyTrade
    \/ CallPerformanceMetrics
    \/ CallEquityCurve
    \/ CallRiskScore
    \/ CallProfitFactor
    \/ CallWinRate
    \/ CallAverageWin
    \/ CallAverageLoss
    \/ CallExpectancy
    \/ CallDirectionalBias

Spec == Init /\ [][Next]_vars

NextSymbols ==
    \/ SupplySymbolTrade
    \/ CallAnalyzeBySymbol

SpecSymbols == Init /\ [][NextSymbols]_vars

NextOvertrading ==
    \/ SupplyBurstTrade
    \/ CallDetectOvertrading

SpecOvertrading == Init /\ [][NextOvertrading]_vars

-----------------------------------------------------------------------------
(* The App: splash screen, loading skeleton, dashboard *)

\* The two versions of App: in App.tsx the loading timer is set while the
\* dataset is generated, in part_000 it is set by handleSplashComplete.
AppVersions == {"App.tsx", "part_000"}

\* What App returns for its state.
AppShows ==
    IF app.showSplash THEN "SplashScreen"
    ELSE IF app.isLoading THEN "LoadingState"
    ELSE "Dashboard"

\* generateCompleteDataset() inside the useMemo of the first render builds the
\* trades.
GenerateDataset ==
    /\ app.version = "none"
    /\ SupplyDrawdownTrade

\* The first render is through: SplashScreen is mounted and its effect has set
\* the 2.5 second timer.  The useMemo callback of App.tsx has set the loading
\* timer, once, or twice where React runs the callback twice (StrictMode in
\* development).
Mount ==
    /\ app.version = "none"
    /\ \E version \in AppVersions, runs \in {1, 2} :
          app' = [app EXCEPT !.version = version,
                             !.splashTimer = TRUE,
                             !.loadingTimers = IF version = "App.tsx" THEN runs ELSE 0]
    /\ UNCHANGED <<trades, call, config, result>>

\* The 2.5 second timer of SplashScreen fires: setIsVisible(false) and
\* setTimeout(onComplete, 800).  Only SplashScreen renders again, with the
\* onComplete it had, so its effect does not run again.
SplashTimerFires ==
    /\ app.splashTimer
    /\ app' = [app EXCEPT !.splashTimer = FALSE,
                          !.isVisible = FALSE,
                          !.fadeTimers = @ + 1]
    /\ UNCHANGED <<trades, call, config, result>>

\* Mutant of LoadingTimerFires: the timer's callback leaves isLoading as it is.
LoadingTimerFires_keepsLoading ==
    /\ app.loadingTimers > 0
    /\ app' = [app EXCEPT !.loadingTimers = @ - 1]
    /\ UNCHANGED <<trades, call, config, result>>

\* An 800 ms timer fires and calls onComplete: setShowSplash(false), and in
\* part_000 handleSplashComplete also sets the 1.5 second loading timer.  App
\* renders without SplashScreen, whose cleanup clears its 2.5 second timer.
FadeTimerFires ==
    /\ app.fadeTimers > 0
    /\ app' = [app EXCEPT !.fadeTimers = @ - 1,
                          !.showSplash = FALSE,
                          !.splashTimer = FALSE,
                          !.loadingTimers =
                              IF app.version = "part_000" THEN @ + 1 ELSE @]
    /\ UNCHANGED <<trades, call, config, result>>

\* A loading timer fires: setIsLoading(false).  When that changes the state
\* while the splash is shown, App renders SplashScreen again with a new
\* onComplete function, so the effect of SplashScreen runs again: its cleanup
\* clears the 2.5 second timer and a new one is set.
LoadingTimerFires ==
    /\ app.loadingTimers > 0
    /\ app' = [app EXCEPT !.loadingTimers = @ - 1,
                          !.isLoading = FALSE,
                          !.splashTimer =
                              IF app.isLoading /\ app.showSplash THEN TRUE ELSE @]
    /\ UNCHANGED <<trades, call, config, result>>

\* The Dashboard, once App returns it, computes its metrics from the trades.
RenderDashboard ==
    /\ AppShows = "Dashboard"
    /\ CallPerformanceMetrics

NextApp ==
    \/ GenerateDataset
    \/ Mount
    \/ SplashTimerFires
    \/ FadeTimerFires
    \/ LoadingTimerFires
    \/ RenderDashboard

\* The first render comes to its end and every timer that is set and not
\* cleared fires.
SpecApp ==
    /\ Init
    /\ [][NextApp]_vars
    /\ WF_vars(Mount)
    /\ WF_vars(SplashTimerFires)
    /\ WF_vars(FadeTimerFires)
    /\ WF_vars(LoadingTimerFires)

NextShuffled ==
    \/ SupplyShuffledTrade
    \/ CallPerformanceMetrics
    \/ CallEquityCurve
    \/ CallRiskScore
    \/ CallAnalyzeStreaks
    \/ CallAnalyzeConsecutiveLosses
    \/ CallDetectOvertrading
    \/ CallAnalyzeTradeClusterPatterns
    \/ CallCumulativeFees

SpecShuffled == Init /\ [][NextShuffled]_vars

NextFees ==
    \/ SupplyFeeTrade
    \/ CallTotalFees
    \/ CallAnalyzeFeeComposition

SpecFees == Init /\ [][NextFees]_vars

NextHours ==
    \/ SupplyHourTrade
    \/ CallAnalyzeHourlyPerformance
    \/ CallAnalyzeSessionPerformance

SpecHours == Init /\ [][NextHours]_vars

NextDrawdown ==
    \/ SupplyDrawdownTrade
    \/ CallMaxDrawdownPercentage
    \/ CallDrawdown

SpecDrawdown == Init /\ [][NextDrawdown]_vars

NextStreaks ==
    \/ SupplyStreakTrade
    \/ CallAnalyzeConsecutiveLosses
    \/ CallAnalyzeStreaks

SpecStreaks == Init /\ [][NextStreaks]_vars

NextRuns ==
    \/ SupplyRunTrade
    \/ CallAnalyzeTradeClusterPatterns

SpecRuns == Init /\ [][NextRuns]_vars

NextLookback ==
    \/ SupplyHistoryTrade
    \/ CallDetectOvertrading

SpecLookback == Init /\ [][NextLookback]_vars

NextClusters ==
    \/ SupplyClusterTrade
    \/ CallAnalyzeTradeClusterPatterns

SpecClusters == Init /\ [][NextClusters]_vars

-----------------------------------------------------------------------------
(* Properties *)

\* The equity after every trade of the array, in timestamp order.
EquityAfter(i) == runningEquity(sortByTimestamp(trades), config, i)

InRange(x, low, high) == RLe(RInt(low), x) /\ RLe(x, RInt(high))

KthTimestamp(k) ==
    CHOOSE v \in {trades[i].timestamp : i \in 1..Len(trades)} :
        /\ Cardinality({i \in 1..Len(trades) : trades[i].timestamp < v}) < k
        /\ Cardinality({i \in 1..Len(trades) : trades[i].timestamp <= v}) >= k

\* Sum of netPnl over a set of indices of trades.
RECURSIVE NetPnlOver(_)
NetPnlOver(S) ==
    IF S = {} THEN 0
    ELSE LET i == CHOOSE j \in S : TRUE IN trades[i].netPnl + NetPnlOver(S \ {i})

\* S holds k chronologically earliest trades: none outside S is earlier than
\* one inside.
IsEarliest(S, k) ==
    /\ Cardinality(S) = k
    /\ \A i \in S, j \in (1..Len(trades)) \ S : trades[i].timestamp <= trades[j].timestamp

\* C2: calculateEquityCurve returns n+1 equity points; point 0 has the value
\* initialCapital, and point k has the timestamp of the k-th trade in ascending
\* timestamp order and the value initialCapital plus the netPnl of the k
\* chronologically earliest trades.
C2_EquityCurveIsCumulativeNetPnl ==
    call = "calculateEquityCurve" =>
        LET points == result.equity
            n == Len(trades)
        IN  /\ Len(points) = n + 1
            /\ points[1].value = config
            /\ \A k \in 1..n :
                  /\ points[k + 1].timestamp = KthTimestamp(k)
                  /\ \E S \in SUBSET (1..n) :
                        /\ IsEarliest(S, k)
                        /\ points[k + 1].value = config + NetPnlOver(S)

\* C2 witness: the curve of a full array supplied out of chronological order,
\* with two trades at one timestamp and a trade that paid fees.
C2_Witness ==
    /\ call = "calculateEquityCurve"
    /\ Len(trades) = MaxTrades
    /\ trades[1].timestamp > trades[2].timestamp
    /\ \E i, j \in 1..Len(trades) : i # j /\ trades[i].timestamp = trades[j].timestamp
    /\ \E i \in 1..Len(trades) : trades[i].fees > 0 /\ trades[i].pnl > 0

\* C3: for initialCapital > 0 the maxDrawdownPercentage of
\* calculatePerformanceMetrics lies in [0, 100], also when the losses take the
\* equity below zero.
C3_MaxDrawdownPercentageInRange ==
    (call = "calculatePerformanceMetrics" /\ config > 0) =>
        InRange(result.maxDrawdownPercentage, 0, 100)

\* C4: calculatePerformanceMetrics returns winRate in [0, 100] and
\* winningTrades + losingTrades = totalTrades, the number of trades of the
\* array, also when some pnl is exactly 0.
C4_WinLossCountsPartition ==
    call = "calculatePerformanceMetrics" =>
        /\ InRange(result.winRate, 0, 100)
        /\ result.winningTrades + result.losingTrades = result.totalTrades
        /\ result.totalTrades = Len(trades)

\* C4 witness: metrics of an array that holds a trade with pnl 0 beside a win
\* and a loss.
C4_Witness ==
    /\ call = "calculatePerformanceMetrics"
    /\ \E i \in 1..Len(trades) : trades[i].pnl = 0
    /\ \E i \in 1..Len(trades) : trades[i].pnl > 0
    /\ \E i \in 1..Len(trades) : trades[i].pnl < 0

\* C5: for a non-empty array the entries of analyzeBySymbol partition the
\* trades: their totalPnl add up to the totalPnl of calculatePerformanceMetrics
\* and their trades counts to its totalTrades.
C5_SymbolEntriesPartitionTrades ==
    (call = "analyzeBySymbol" /\ trades # <<>>) =>
        LET metrics == calculatePerformanceMetrics(trades, 10)
        IN  /\ SumSeq(result, LAMBDA e : e.totalPnl) = metrics.totalPnl
            /\ SumSeq(result, LAMBDA e : e.trades) = metrics.totalTrades

\* C5 witness: a breakdown with at least two symbols, one of them traded more
\* than once.
C5_Witness ==
    /\ call = "analyzeBySymbol"
    /\ Len(result) >= 2
    /\ \E i \in 1..Len(result) : result[i].trades >= 2

\* What C6 says profitFactor is, given grossProfit and grossLoss.
ProfitFactorOf(grossProfit, grossLoss) ==
    IF grossLoss = 0 /\ grossProfit > 0 THEN Infinity
    ELSE IF grossProfit = 0 THEN Zero
    ELSE Rat(grossProfit, grossLoss)

\* C6: profitFactor, in calculatePerformanceMetrics and in
\* calculateProfitFactor, is Infinity when grossLoss = 0 and grossProfit > 0,
\* is 0 when grossProfit = 0 (only losses, or no trades), and is
\* grossProfit / grossLoss otherwise.
C6_ProfitFactorCases ==
    /\ call = "calculatePerformanceMetrics" =>
          result.profitFactor = ProfitFactorOf(result.grossProfit, result.grossLoss)
    /\ call = "calculateProfitFactor" =>
          LET metrics == calculatePerformanceMetrics(trades, 10)
          IN  /\ result = ProfitFactorOf(metrics.grossProfit, metrics.grossLoss)
              /\ trades = <<>> => result = Zero

\* C6 witness: calculateProfitFactor has returned Infinity for wins without a
\* losing pnl beside them.
C6_Witness ==
    /\ call = "calculateProfitFactor"
    /\ result = Infinity
    /\ Len(trades) >= 2

IntegerFields ==
    {"totalTrades", "winningTrades", "losingTrades", "totalPnl", "realizedPnl",
     "unrealizedPnl", "grossProfit", "grossLoss", "netProfit", "largestWin",
     "largestLoss", "maxDrawdown", "longTrades", "shortTrades", "totalVolume",
     "totalFees", "shortestTrade", "longestTrade"}

RatioFields ==
    {"winRate", "roi", "averageReturn", "averageWin", "averageLoss", "profitFactor",
     "expectancy", "maxDrawdownPercentage", "currentDrawdown", "longShortRatio",
     "feeToProfitRatio", "averageTradeDuration"}

\* C7: on an empty array calculatePerformanceMetrics returns a complete bundle
\* in which every field is 0, for every initialCapital.
C7_EmptyMetricsAllZero ==
    (call = "calculatePerformanceMetrics" /\ trades = <<>>) =>
        /\ DOMAIN result = IntegerFields \cup RatioFields \cup {"sharpeRatio"}
        /\ \A f \in IntegerFields : result[f] = 0
        /\ \A f \in RatioFields : result[f] = Zero
        /\ result.sharpeRatio = SharpeZero

\* C7 witness: the metrics of an empty array were asked for with
\* initialCapital 0.
C7_Witness ==
    /\ call = "calculatePerformanceMetrics"
    /\ trades = <<>>
    /\ config = 0

\* C10: for a non-empty array the roi of calculatePerformanceMetrics is
\* (totalPnl / initialCapital) x 100, totalPnl being the sum of the pnl reported
\* in the same bundle, and is 0 when initialCapital is 0.
C10_RoiIsTotalPnlOverCapital ==
    (call = "calculatePerformanceMetrics" /\ trades # <<>> /\ config >= 0) =>
        result.roi = IF config = 0 THEN Zero ELSE Rat(result.totalPnl * 100, config)

\* Every trade after the first follows its predecessor in the array after gap,
\* and every trade lasts duration.
Spaced(gap, duration) ==
    /\ \A i \in 2..Len(trades) : trades[i].timestamp - trades[i - 1].timestamp = gap
    /\ \A i \in 1..Len(trades) : trades[i].duration = duration

\* C8 as stated: 5 trades 10 minutes apart, each lasting 20 minutes, make
\* detectOvertrading return true; the same 5 trades 2 hours apart make it
\* return false.
C8_FiveRapidTradesFlagged ==
    (call = "detectOvertrading" /\ Len(trades) = 5) =>
        /\ Spaced(600000, 1200000) => result = TRUE
        /\ Spaced(7200000, 1200000) => result = FALSE

\* C8 amended: 5 trades 10 minutes apart, each lasting 20 minutes, make
\* detectOvertrading return false, since it flags nothing under 10 trades; 10
\* or more such trades make it return true; trades 2 hours apart, 5 of them or
\* more, make it return false.
C8_TenRapidTradesFlagged ==
    call = "detectOvertrading" =>
        /\ (Len(trades) = 5 /\ Spaced(600000, 1200000)) => result = FALSE
        /\ (Len(trades) >= 10 /\ Spaced(600000, 1200000)) => result = TRUE
        /\ (Len(trades) >= 5 /\ Spaced(7200000, 1200000)) => result = FALSE

\* C8 witness: 10 trades 10 minutes apart, each lasting 20 minutes, were flagged.
C8_Witness ==
    /\ call = "detectOvertrading"
    /\ Len(trades) = 10
    /\ Spaced(600000, 1200000)
    /\ result = TRUE

\* Sum of pnl over a set of indices of trades.
RECURSIVE PnlOver(_)
PnlOver(S) ==
    IF S = {} THEN 0
    ELSE LET i == CHOOSE j \in S : TRUE IN trades[i].pnl + PnlOver(S \ {i})

\* The trades with an index in S are 4 trades within a 90-minute span, 3 of
\* them wins and 1 a loss.
FourWithinNinetyMinutes(S) ==
    /\ Cardinality(S) = 4
    /\ \A i, j \in S : trades[i].timestamp - trades[j].timestamp <= 5400000
    /\ Cardinality({i \in S : trades[i].outcome = "win"}) = 3
    /\ Cardinality({i \in S : trades[i].outcome = "loss"}) = 1

\* The one cluster C9 expects for the trades with an index in S.
IsTheClusterOf(S) ==
    /\ Len(result) = 1
    /\ result[1].tradeCount = 4
    /\ result[1].pattern = "winning-streak"
    /\ result[1].avgPnl = Rat(PnlOver(S), 4)

C11_EnginesLeaveTradesUnchanged ==
    [][call' # "none" => trades' = trades]_vars

\* C11 witness: an engine that sorts by timestamp has been called on a full
\* array that was supplied out of chronological order and still is.
C11_Witness ==
    /\ call \in {"getRiskMetrics", "calculatePerformanceMetrics", "analyzeStreaks",
                 "calculateCumulativeFees"}
    /\ Len(trades) = MaxInvokedTrades
    /\ trades[1].timestamp > trades[2].timestamp
    /\ \A i \in 1..Len(trades) : trades[i].id = i

\* C12: an engine call returns the same result whatever the wall-clock time of
\* the call: what calculateEquityCurve and analyzeDirectionalBias returned for
\* the array (and the capital) is what they return at every other time, the
\* empty array included.
C12_ResultIndependentOfClock ==
    \A now \in Clock :
        /\ call = "calculateEquityCurve" =>
              result = calculateEquityCurve(trades, config, now)
        /\ call = "analyzeDirectionalBias" =>
              result = analyzeDirectionalBias(trades, now)

\* The indices of the 30 chronologically latest trades, of all the trades when
\* there are fewer: fewer than 30 trades are later.
Latest ==
    {i \in 1..Len(trades) :
        Cardinality({j \in 1..Len(trades) :
                        trades[j].timestamp > trades[i].timestamp}) < 30}

\* Sum of duration over a set of indices of trades.
RECURSIVE DurationOver(_)
DurationOver(S) ==
    IF S = {} THEN 0
    ELSE LET i == CHOOSE j \in S : TRUE IN trades[i].duration + DurationOver(S \ {i})

\* The gaps between the consecutive timestamps of the latest trades add up to
\* the span from the earliest to the latest of them, so their average is under
\* 30 minutes when the span is under 30 minutes times their number.
LatestAverageGapUnderThirtyMinutes ==
    LET times == {trades[i].timestamp : i \in Latest}
        first == CHOOSE t \in times : \A u \in times : t <= u
        last == CHOOSE t \in times : \A u \in times : u <= t
    IN  last - first < ThirtyMinutesMs * (Cardinality(Latest) - 1)

LatestAverageDurationUnderOneHour ==
    DurationOver(Latest) < OneHourMs * Cardinality(Latest)

\* C13: detectOvertrading returns true if and only if there are at least 10
\* trades and, over the 30 chronologically latest of them (all when fewer), the
\* average gap between consecutive timestamps is under 30 minutes and the
\* average duration is under 1 hour; one threshold alone yields false.
C13_OvertradingIffBothThresholds ==
    call = "detectOvertrading" =>
        (result = TRUE <=> (/\ Len(trades) >= 10
                            /\ LatestAverageGapUnderThirtyMinutes
                            /\ LatestAverageDurationUnderOneHour))

\* C13 witness: a history of more than 30 trades was flagged on the strength of
\* its 30 latest trades: over the whole history the average gap is 30 minutes
\* or more.
C13_Witness ==
    /\ call = "detectOvertrading"
    /\ result = TRUE
    /\ Len(trades) > 30
    /\ Abs(trades[Len(trades)].timestamp - trades[1].timestamp)
           >= ThirtyMinutesMs * (Len(trades) - 1)

\* rational + sqrt(square) = k
RootSumIs(rational, square, k) ==
    LET rest == RSub(RInt(k), rational)
    IN  RLe(Zero, rest) /\ RMul(rest, rest) = square

\* rational + sqrt(square) >= k
RootSumAtLeast(rational, square, k) ==
    LET rest == RSub(RInt(k), rational)
    IN  RLe(rest, Zero) \/ RLe(RMul(rest, rest), square)

\* C14: for a non-empty array calculateRiskScore is min(D + L + V + O, 100),
\* the sum being clamped and not altered otherwise, with
\* D = min(maxDrawdownPercent x 1.5, 30), L = min(maxConsecutiveLosses x 5, 25),
\* V = min(population standard deviation of pnlPercentage x 2.5, 25) and
\* O = 20 when detectOvertrading flags the trades, else 0.
C14_RiskScoreIsClampedSum ==
    (call = "calculateRiskScore" /\ trades # <<>>) =>
        LET sorted == sortByTimestamp(trades)
            D == RMin(RMul(calculateMaxDrawdownPercentage(sorted, config), Rat(3, 2)),
                      RInt(30))
            L == RMin(RInt(analyzeConsecutiveLosses(trades).maxConsecutiveLosses * 5),
                      RInt(25))
            VSquared == RMin(RMul(returnVariance(trades), Rat(25, 4)), RInt(625))
            O == IF detectOvertrading(trades) THEN RInt(20) ELSE Zero
            rational == RAdd(RAdd(D, L), O)
        IN  IF RootSumAtLeast(rational, VSquared, 100)
            THEN result = 100
            ELSE RootSumIs(rational, VSquared, result)

\* C15: for every capital C > 0 the maximum drawdown percentage of the risk
\* engine, calculateMaxDrawdownPercentage(trades, C), is the
\* maxDrawdownPercentage that calculateDrawdown returns for the equity points
\* of calculateEquityCurve(trades, C).
C15_RiskDrawdownIsPerformanceDrawdown ==
    (call = "calculateMaxDrawdownPercentage" /\ config > 0) =>
        \A now \in Clock :
            result = calculateDrawdown(
                         calculateEquityCurve(trades, config, now).equity
                     ).maxDrawdownPercentage

\* The largest of a non-empty set of fractions.
Largest(S) == CHOOSE m \in S : \A x \in S : RLe(x, m)

\* The highest equity among the first i points of the curve of the array.
PeakUpTo(i) ==
    LET values == {EquityAfter(k) : k \in 0..(i - 1)}
    IN  CHOOSE m \in values : \A v \in values : v <= m

\* C16: the maxDrawdownPercentage of calculateDrawdown is the largest
\* percentage decline from the running peak, the maximum over the points of
\* the curve of (runningPeak - value) / runningPeak x 100, and so the maximum
\* of the drawdown series that calculateEquityCurve returns for the curve.
C16_MaxDrawdownPercentageIsLargestDecline ==
    (call = "calculateDrawdown" /\ config > 0) =>
        /\ result.maxDrawdownPercentage =
               Largest({Rat((PeakUpTo(i) - EquityAfter(i - 1)) * 100, PeakUpTo(i)) :
                           i \in 1..(Len(trades) + 1)})
        /\ \A now \in Clock :
               LET series == calculateEquityCurve(trades, config, now).drawdown
               IN  result.maxDrawdownPercentage =
                       Largest({series[i].value : i \in 1..Len(series)})

\* The outcome of the k-th trade in chronological order, for an array whose
\* timestamps all differ.
OutcomeAt(k) ==
    LET i == CHOOSE j \in 1..Len(trades) :
                 Cardinality({h \in 1..Len(trades) :
                                 trades[h].timestamp < trades[j].timestamp}) = k - 1
    IN  trades[i].outcome

\* The length of the run of trades with this outcome that ends at the
\* chronologically latest trade.
TrailingRun(outcome) ==
    LET n == Len(trades)
    IN  CHOOSE k \in 0..n :
            /\ \A j \in (n - k + 1)..n : OutcomeAt(j) = outcome
            /\ k < n => OutcomeAt(n - k) # outcome

\* The length of the longest run of chronologically consecutive trades with
\* this outcome, 0 when no trade has it.
LongestRun(outcome) ==
    LET n == Len(trades)
        IsRun(from, length) == \A j \in from..(from + length - 1) : OutcomeAt(j) = outcome
    IN  CHOOSE m \in 0..n :
            /\ \E from \in 1..(n - m + 1) : IsRun(from, m)
            /\ \A longer \in (m + 1)..n :
                  \A from \in 1..(n - longer + 1) : ~IsRun(from, longer)

\* C17: analyzeConsecutiveLosses returns as currentConsecutiveLosses the length
\* of the run of losses that ends at the chronologically latest trade: k for a
\* history that ends in k losses preceded by a win, 0 when the latest trade is
\* a win.
C17_CurrentLossesIsTrailingRun ==
    call = "analyzeConsecutiveLosses" =>
        result.currentConsecutiveLosses = TrailingRun("loss")

\* C18: analyzeStreaks returns as longestWinStreak and longestLossStreak the
\* lengths of the longest runs of wins and of losses over the whole
\* chronological history, wherever the current streak ends.
C18_LongestStreaksOverWholeHistory ==
    call = "analyzeStreaks" =>
        /\ result.longestWinStreak = LongestRun("win")
        /\ result.longestLossStreak = LongestRun("loss")

\* C19: analyzeConsecutiveLosses returns as maxConsecutiveLosses the length of
\* the longest run of losses anywhere in the chronological history, 0 when
\* there is no loss, whatever the outcome of the latest trade.
C19_MaxLossesIsLongestRun ==
    call = "analyzeConsecutiveLosses" =>
        result.maxConsecutiveLosses = LongestRun("loss")

\* C19 witness: the latest trade is a win, and the longest run of losses, of
\* 2 or more, lies before a later and shorter run of losses; the array was
\* not supplied in chronological order.
C19_Witness ==
    /\ call = "analyzeConsecutiveLosses"
    /\ Len(trades) >= 5
    /\ OutcomeAt(Len(trades)) = "win"
    /\ OutcomeAt(Len(trades) - 1) = "loss"
    /\ OutcomeAt(Len(trades) - 2) = "win"
    /\ result.maxConsecutiveLosses >= 2
    /\ \E i \in 2..Len(trades) : trades[i].timestamp < trades[i - 1].timestamp

\* The timestamp of the k-th trade in chronological order, for an array whose
\* timestamps all differ.
TimeAt(k) ==
    CHOOSE t \in {trades[i].timestamp : i \in 1..Len(trades)} :
        Cardinality({i \in 1..Len(trades) : trades[i].timestamp < t}) = k - 1

\* The k-th trade follows the one before it within the 2-hour window.
Follows(k) == TimeAt(k) - TimeAt(k - 1) <= clusterWindow

\* The maximal runs of 3 or more chronologically consecutive trades in which
\* every trade follows the one before it within the window: <<a, b>> is the
\* run from the a-th to the b-th trade.
MaximalRuns ==
    LET n == Len(trades)
    IN  {run \in (1..n) \X (1..n) :
            /\ run[2] - run[1] + 1 >= 3
            /\ \A k \in (run[1] + 1)..run[2] : Follows(k)
            /\ run[1] > 1 => ~Follows(run[1])
            /\ run[2] < n => ~Follows(run[2] + 1)}

IsClusterOfRun(cluster, run) ==
    /\ cluster.startTime = TimeAt(run[1])
    /\ cluster.endTime = TimeAt(run[2])
    /\ cluster.tradeCount = run[2] - run[1] + 1

\* The result holds one cluster for each maximal run and nothing else, in
\* chronological order.
ClustersAreMaximalRuns ==
    /\ Len(result) = Cardinality(MaximalRuns)
    /\ \A i \in 1..Len(result) : \E run \in MaximalRuns : IsClusterOfRun(result[i], run)
    /\ \A run \in MaximalRuns : \E i \in 1..Len(result) : IsClusterOfRun(result[i], run)
    /\ \A i \in 2..Len(result) : result[i - 1].endTime < result[i].startTime

TradesOf(cluster) ==
    {i \in 1..Len(trades) :
        cluster.startTime <= trades[i].timestamp /\ trades[i].timestamp <= cluster.endTime}

\* The pattern C21 gives to the trades with an index in S: the first rule that
\* applies, on whole numbers (wins >= 70% is 10 x wins >= 7 x size, and
\* |mean pnl| < 10 is |sum of pnl| < 10 x size).
PatternOf(S) ==
    LET size == Cardinality(S)
        wins == Cardinality({i \in S : trades[i].pnl > 0})
        losses == size - wins
    IN  IF 10 * wins >= 7 * size THEN "winning-streak"
        ELSE IF 10 * losses >= 7 * size THEN "losing-streak"
        ELSE IF Abs(PnlOver(S)) < 10 * size THEN "choppy"
        ELSE "normal"

\* C21: every cluster analyzeTradeClusterPatterns returns is classified by the
\* first rule that applies, on the trades of that cluster alone:
\* 'winning-streak' if wins >= 70% of them, else 'losing-streak' if losses >=
\* 70%, else 'choppy' if |mean pnl| < 10, else 'normal'.
C21_ClusterPatternByFirstRule ==
    call = "analyzeTradeClusterPatterns" =>
        \A k \in 1..Len(result) :
            /\ Cardinality(TradesOf(result[k])) = result[k].tradeCount
            /\ result[k].pattern = PatternOf(TradesOf(result[k]))

\* C21 witness: a cluster whose mean pnl is exactly 10 came back 'normal', from
\* an array that holds a trade outside the cluster.
C21_Witness ==
    /\ call = "analyzeTradeClusterPatterns"
    /\ Len(result) = 1
    /\ result[1].tradeCount < Len(trades)
    /\ result[1].avgPnl = RInt(10)
    /\ result[1].pattern = "normal"

\* d is the k-th smallest of the durations of the trades, counted with
\* repetitions: fewer than k durations lie below d and at least k do not
\* lie above it.
IsKthSmallestDuration(d, k) ==
    /\ \E i \in 1..Len(trades) : trades[i].duration = d
    /\ Cardinality({i \in 1..Len(trades) : trades[i].duration < d}) < k
    /\ Cardinality({i \in 1..Len(trades) : trades[i].duration <= d}) >= k

\* C22 as stated: the median calculateTradeDurationMetrics returns is the middle
\* element of the ascending durations when their count is odd and the lower of
\* the two middle elements when it is even.
C22_MedianIsLowerMiddle ==
    (call = "calculateTradeDurationMetrics" /\ Len(trades) > 0) =>
        IsKthSmallestDuration(result.median, (Len(trades) + 1) \div 2)

\* C22 amended: the median calculateTradeDurationMetrics returns is the middle
\* element of the ascending durations when their count is odd and the upper of
\* the two middle elements, without averaging, when it is even.
C22_MedianIsUpperMiddle ==
    (call = "calculateTradeDurationMetrics" /\ Len(trades) > 0) =>
        IsKthSmallestDuration(result.median, (Len(trades) \div 2) + 1)

\* C22 witness: of two trades with different durations, the longer duration
\* came back as the median.
C22_Witness ==
    /\ call = "calculateTradeDurationMetrics"
    /\ Len(trades) = 2
    /\ trades[1].duration # trades[2].duration
    /\ result.median = Max(<<trades[1].duration, trades[2].duration>>)

\* The fees paid on the trades: the sum of their fees fields.
FeesPaid == Sum([i \in 1..Len(trades) |-> trades[i].fees])

\* C23: analyzeFeeComposition reports the totals of the maker and of the taker
\* fees as percentages of the total fees paid, the sum of the trades' fees that
\* calculateTotalFees returns and that its totalFees field holds, and both
\* percentages are 0 when no fees were paid; also for trades without a
\* maker/taker split.
C23_FeePercentagesOfTotalFeesPaid ==
    call = "analyzeFeeComposition" =>
        /\ FeesPaid = calculateTotalFees(trades)
        /\ result.totalFees = FeesPaid
        /\ FeesPaid = 0 =>
              (result.makerPercentage = Zero /\ result.takerPercentage = Zero)
        /\ FeesPaid > 0 =>
              /\ result.makerPercentage = Rat(100 * result.makerFees, FeesPaid)
              /\ result.takerPercentage = Rat(100 * result.takerFees, FeesPaid)

\* The sum of the hourly buckets from hour a to hour b that
\* analyzeHourlyPerformance returns for the trades on the same local clock.
HourlyOver(a, b, utcOffset) ==
    LET hourly == analyzeHourlyPerformance(trades, utcOffset)
    IN  Sum([k \in 1..(b - a + 1) |-> hourly[a + k - 1]])

\* C24: analyzeHourlyPerformance returns exactly the 24 buckets 0..23; the
\* morning, afternoon and evening of analyzeSessionPerformance are the sums of
\* the hourly buckets 0-11, 12-17 and 18-23, so the three sessions add up to
\* the total pnl of the trades.
C24_SessionsAreSumsOfHourlyBuckets ==
    /\ call = "analyzeHourlyPerformance" =>
          /\ DOMAIN result = 0..23
          /\ Cardinality(DOMAIN result) = 24
    /\ call = "analyzeSessionPerformance" =>
          /\ result.morning = HourlyOver(0, 11, config)
          /\ result.afternoon = HourlyOver(12, 17, config)
          /\ result.evening = HourlyOver(18, 23, config)
          /\ result.morning + result.afternoon + result.evening
                = PnlOver(1..Len(trades))

\* C24 witness: the sessions of three trades came back with a trade in each
\* session, one of them at noon UTC, on a local clock that is not at UTC.
C24_Witness ==
    /\ call = "analyzeSessionPerformance"
    /\ config # 0
    /\ \E i \in 1..Len(trades) : trades[i].timestamp = 43200000
    /\ result.morning # 0
    /\ result.afternoon # 0
    /\ result.evening # 0

\* The last value of the drawdown series that calculateEquityCurve returns for
\* the trades and the capital at the time now.
LastOfDrawdownSeries(initialCapital, now) ==
    LET drawdown == calculateEquityCurve(trades, initialCapital, now).drawdown
    IN  drawdown[Len(drawdown)].value

\* C25: for an equity curve that starts at a positive value, the currentDrawdown
\* calculateDrawdown returns is the last value of the drawdown series that
\* calculateEquityCurve returns for the same trades and capital.
C25_CurrentDrawdownIsLastOfSeries ==
    (call = "calculateDrawdown" /\ config > 0) =>
        \A now \in Clock :
            result.currentDrawdown = LastOfDrawdownSeries(config, now)

\* C25 witness: a curve from a positive capital that rose above it and then
\* fell came back with a current drawdown above 0.
C25_Witness ==
    /\ call = "calculateDrawdown"
    /\ config > 0
    /\ \E i \in 1..Len(trades) : EquityAfter(i) > config
    /\ RLt(Zero, result.currentDrawdown)
    /\ result.currentDrawdown # result.maxDrawdownPercentage

\* C29: for every non-empty equity curve calculateDrawdown returns a
\* currentDrawdown that is at most its maxDrawdownPercentage.
C29_CurrentDrawdownAtMostMax ==
    call = "calculateDrawdown" =>
        RLe(result.currentDrawdown, result.maxDrawdownPercentage)

\* C26: for a non-empty array in which a trade is a win exactly when its pnl is
\* above 0, the expectancy of calculatePerformanceMetrics and the value of
\* calculateExpectancy are totalPnl / totalTrades, the averageReturn.
C26_ExpectancyIsAverageReturn ==
    LET everyWinHasPositivePnl ==
            \A i \in 1..Len(trades) : (trades[i].outcome = "win") <=> (trades[i].pnl > 0)
        averageReturn == Rat(PnlOver(1..Len(trades)), Len(trades))
    IN  (Len(trades) > 0 /\ everyWinHasPositivePnl) =>
            /\ call = "calculatePerformanceMetrics" =>
                  /\ result.expectancy = averageReturn
                  /\ result.expectancy = result.averageReturn
            /\ call = "calculateExpectancy" => result = averageReturn

\* C26 witness: calculateExpectancy came back for an array with a gain, a loss
\* and a trade of pnl 0, whose pnl do not cancel.
C26_Witness ==
    /\ call = "calculateExpectancy"
    /\ \E i, j, k \in 1..Len(trades) :
          trades[i].pnl > 0 /\ trades[j].pnl < 0 /\ trades[k].pnl = 0
    /\ result # Zero

\* C28: on a non-empty array calculateWinRate, calculateAverageWin,
\* calculateAverageLoss, calculateProfitFactor and calculateExpectancy return
\* the winRate, averageWin, averageLoss, profitFactor and expectancy of
\* calculatePerformanceMetrics for that array.
C28_AnalyticsAgreeWithPerformanceMetrics ==
    (Len(trades) > 0 /\ call # "none" /\ call # "calculatePerformanceMetrics") =>
        \A initialCapital \in Capitals :
            LET metrics == calculatePerformanceMetrics(trades, initialCapital)
            IN  /\ call = "calculateWinRate" => result = metrics.winRate
                /\ call = "calculateAverageWin" => result = metrics.averageWin
                /\ call = "calculateAverageLoss" => result = metrics.averageLoss
                /\ call = "calculateProfitFactor" => result = metrics.profitFactor
                /\ call = "calculateExpectancy" => result = metrics.expectancy

\* C28 witness: calculateAverageWin came back above 0 for an array with wins
\* and losses.
C28_Witness ==
    /\ call = "calculateAverageWin"
    /\ \E i, j \in 1..Len(trades) :
          trades[i].outcome = "win" /\ trades[j].outcome = "loss"
    /\ RLt(Zero, result)

\* The array with the trades at the indices i and j exchanged.
Exchanged(i, j) ==
    [k \in 1..Len(trades) |->
        IF k = i THEN trades[j] ELSE IF k = j THEN trades[i] ELSE trades[k]]

\* Other supply orders of the trades: every permutation of an array of up to 5
\* trades; of a longer array the reverse, the rotation by one place and the
\* arrays with two neighbours or the first and the last trade exchanged.
Rearrangements ==
    LET n == Len(trades)
    IN  IF n <= 5
        THEN {[k \in 1..n |-> trades[p[k]]] : p \in Permutations(1..n)}
        ELSE {[k \in 1..n |-> trades[n + 1 - k]],
              [k \in 1..n |-> trades[(k % n) + 1]],
              Exchanged(1, n)}
             \cup {Exchanged(i, i + 1) : i \in 1..(n - 1)}

TimestampsAllDiffer ==
    \A i, j \in 1..Len(trades) : i # j => trades[i].timestamp # trades[j].timestamp

\* C27: for an array whose timestamps all differ the supply order does not
\* matter: calculatePerformanceMetrics, calculateEquityCurve,
\* calculateRiskScore, analyzeStreaks, analyzeConsecutiveLosses,
\* detectOvertrading, analyzeTradeClusterPatterns and calculateCumulativeFees
\* return for every other order of the same trades what they returned for the
\* order supplied.
C27_SupplyOrderDoesNotMatter ==
    (call # "none" /\ TimestampsAllDiffer) =>
        \A other \in Rearrangements :
            /\ call = "calculatePerformanceMetrics" =>
                  result = calculatePerformanceMetrics(other, config)
            /\ call = "calculateEquityCurve" =>
                  \E now \in Clock : result = calculateEquityCurve(other, config, now)
            /\ call = "calculateRiskScore" =>
                  result = calculateRiskScore(other, config)
            /\ call = "analyzeStreaks" => result = analyzeStreaks(other)
            /\ call = "analyzeConsecutiveLosses" =>
                  result = analyzeConsecutiveLosses(other)
            /\ call = "detectOvertrading" => result = detectOvertrading(other)
            /\ call = "analyzeTradeClusterPatterns" =>
                  result = analyzeTradeClusterPatterns(other)
            /\ call = "calculateCumulativeFees" =>
                  result = calculateCumulativeFees(other)

\* C27 witness: detectOvertrading raised the flag on 10 trades supplied neither
\* oldest first nor newest first.
C27_Witness ==
    /\ call = "detectOvertrading"
    /\ result = TRUE
    /\ Len(trades) >= 10
    /\ \E i, j \in 1..(Len(trades) - 1) :
          /\ trades[i].timestamp < trades[i + 1].timestamp
          /\ trades[j].timestamp > trades[j + 1].timestamp

\* C30: from its initial state, with the splash shown and isLoading true, the
\* App comes to render the Dashboard, provided every timer that is set
\* fires, and once it renders the Dashboard it never again renders the
\* splash screen or the loading skeleton, in whatever order the splash
\* timers and the loading timers fire.
C30_DashboardEventuallyAndForGood ==
    /\ <>(AppShows = "Dashboard")
    /\ [](AppShows = "Dashboard" => [](AppShows = "Dashboard"))

\* C30 witness: the App of App.tsx renders the Dashboard after a loading timer
\* fired while the splash was fading, which set a second 2.5 second timer
\* that fired too: an 800 ms timer is still to come.
C30_Witness ==
    /\ AppShows = "Dashboard"
    /\ app.version = "App.tsx"
    /\ app.fadeTimers = 1
    /\ call = "calculatePerformanceMetrics"

=============================================================================
